---------------------------- MODULE Spec2Model ----------------------------
(***************************************************************************)
(* A model of the WhatsApp command clients of Conversation-Assistant:      *)
(*   WhatsAppAIControl          (src/client/whatsapp_ai_control.py)         *)
(*   WhatsAppAIControlMCP       (src/client/whatsapp_ai_control_mcp.py)     *)
(*   WhatsAppInteractiveClient  (src/client/whatsapp_interactive.py)        *)
(* and of MCPServer (src/mcp/server.py): its contact matching and its       *)
(* tables of connected clients.                                            *)
(*                                                                         *)
(* Text is modelled as a sequence of one-character strings, so lower(),    *)
(* the "in" substring test and difflib's similarity ratio are computed     *)
(* character by character as Python computes them.                         *)
(***************************************************************************)
EXTENDS Integers, Sequences, FiniteSets, TLC

VARIABLES
    variant,          \* which client class is running
    running,          \* self.running
    auto_reply,       \* self.auto_reply
    message_history,  \* self.message_history: chat name -> list of entries
    contact_list,     \* self.contact_list (WhatsAppAIControlMCP)
    last_contact,     \* self.last_contact (WhatsAppAIControlMCP)
    use_mcp,          \* self.use_mcp (WhatsAppAIControlMCP)
    last_messages,    \* the monitor loop's local last_messages dict
    chats,            \* the automation backend: the DOM's chat list, in order
    clock,            \* datetime.now(), counted in history appends
    sendCalls,        \* send_message calls made by the latest operation
    modelCalls,       \* generate_response calls made by the latest operation
    result,           \* what the latest operation returned
    pc,               \* where the main coroutine and the input thread stand
    input_queue,      \* keys typed by the operator and not yet read
    in_flight,        \* commands whose process_command call has not returned
    response_futures, \* MCPClient.response_futures: the request ids it holds
    calls,            \* send_request_and_wait calls: request id -> call state
    wire,             \* messages of the server not yet received by the client
    clients,          \* MCPServer.clients: client_id -> websocket
    user_sessions,    \* MCPServer.user_sessions: client_id -> session
    connections       \* handle_client coroutines: websocket -> its state

\* the state of the client classes and of the page
appVars == <<variant, running, auto_reply, message_history, contact_list,
             last_contact, use_mcp, last_messages, chats, clock,
             sendCalls, modelCalls, result>>
\* the command loop
loopVars == <<pc, input_queue, in_flight>>
\* the relay server's tables and connection handlers
serverVars == <<clients, user_sessions, connections>>
\* the relay: the client's pending requests, and the server
relayVars == <<response_futures, calls, wire, serverVars>>

vars == <<appVars, loopVars, relayVars>>

-----------------------------------------------------------------------------
(* Text *)

UpperCase == <<"A","B","C","D","E","F","G","H","I","J","K","L","M",
               "N","O","P","Q","R","S","T","U","V","W","X","Y","Z">>
LowerCase == <<"a","b","c","d","e","f","g","h","i","j","k","l","m",
               "n","o","p","q","r","s","t","u","v","w","x","y","z">>

\* The characters in code point order: space, ?, A-Z, a-z.
CodePoints == <<" ", "?">> \o UpperCase \o LowerCase

Chars == {CodePoints[i] : i \in 1..Len(CodePoints)}

\* ord(c), as the rank among the characters used
OrdMap == [c \in Chars |-> CHOOSE i \in 1..Len(CodePoints) : CodePoints[i] = c]
Ord(c) == OrdMap[c]

\* str.lower() on one character
LowerMap ==
    [c \in Chars |->
        IF \E i \in 1..Len(UpperCase) : UpperCase[i] = c
        THEN LowerCase[CHOOSE i \in 1..Len(UpperCase) : UpperCase[i] = c]
        ELSE c]
LowerChar(c) == LowerMap[c]

\* str.lower()
Lower(s) == [i \in 1..Len(s) |-> LowerChar(s[i])]

\* Python's "sub in s"
Contains(sub, s) ==
    \E k \in 0..(Len(s) - Len(sub)) :
        \A i \in 1..Len(sub) : s[k + i] = sub[i]

\* Python's s < t on str: lexicographic by code point
StrLess(s, t) ==
    \E k \in 1..(Len(t)) :
        /\ k <= Len(s) + 1
        /\ \A i \in 1..(k - 1) : s[i] = t[i]
        /\ (k = Len(s) + 1 \/ Ord(s[k]) < Ord(t[k]))

Max(S) == CHOOSE x \in S : \A y \in S : y <= x
Min2(x, y) == IF x <= y THEN x ELSE y

-----------------------------------------------------------------------------
(* difflib.SequenceMatcher on short strings (no junk, autojunk inactive     *)
(* below 200 characters).  Ranges are half open, [alo, ahi), 1-based.       *)

RECURSIVE RunEnding(_, _, _, _, _, _)
\* j2len: the length of the common run of a and b that ends at a[i], b[j]
RunEnding(a, b, i, j, alo, blo) ==
    IF i < alo \/ j < blo THEN 0
    ELSE IF a[i] # b[j] THEN 0
    ELSE 1 + RunEnding(a, b, i - 1, j - 1, alo, blo)

\* <<besti, bestj, bestsize>>: the longest block, earliest in a, then in b
find_longest_match(a, b, alo, ahi, blo, bhi) ==
    LET cells == (alo..(ahi - 1)) \X (blo..(bhi - 1))
        k == [c \in cells |-> RunEnding(a, b, c[1], c[2], alo, blo)]
        Block(first, best) == <<first[1] - best + 1, first[2] - best + 1, best>>
        Earliest(winners, best) ==
            Block(CHOOSE c \in winners : \A d \in winners :
                      c[1] < d[1] \/ (c[1] = d[1] /\ c[2] <= d[2]),
                  best)
        Longest(j2len, best) ==
            IF best = 0 THEN <<alo, blo, 0>>
            ELSE Earliest({c \in cells : j2len[c] = best}, best)
        Over(j2len) ==
            Longest(j2len, IF cells = {} THEN 0 ELSE Max({j2len[c] : c \in cells}))
    IN  Over(k)

RECURSIVE get_matching_blocks(_, _, _, _, _, _)
\* the total size of the matching blocks of a[alo:ahi] and b[blo:bhi]
get_matching_blocks(a, b, alo, ahi, blo, bhi) ==
    LET Around(i, j, k) ==
            IF k = 0 THEN 0
            ELSE k
                 + (IF alo < i /\ blo < j
                    THEN get_matching_blocks(a, b, alo, i, blo, j) ELSE 0)
                 + (IF i + k < ahi /\ j + k < bhi
                    THEN get_matching_blocks(a, b, i + k, ahi, j + k, bhi) ELSE 0)
        Split(m) == Around(m[1], m[2], m[3])
    IN  Split(find_longest_match(a, b, alo, ahi, blo, bhi))

\* _calculate_ratio: 2.0 * matches / length, 1.0 when length is 0;
\* kept as the fraction <<numerator, denominator>>
calculate_ratio(matches, length) ==
    IF length > 0 THEN <<2 * matches, length>> ELSE <<1, 1>>

ratio(a, b) ==
    calculate_ratio(get_matching_blocks(a, b, 1, Len(a) + 1, 1, Len(b) + 1),
                    Len(a) + Len(b))

Count(s, c) == Cardinality({i \in 1..Len(s) : s[i] = c})

\* upper bound on ratio(): the multiset intersection of the characters
quick_ratio(a, b) ==
    LET cs == {a[i] : i \in 1..Len(a)}
        sizes == [c \in cs |-> Min2(Count(a, c), Count(b, c))]
        RECURSIVE Sum(_)
        Sum(S) == IF S = {} THEN 0
                  ELSE LET c == CHOOSE c \in S : TRUE
                       IN  sizes[c] + Sum(S \ {c})
    IN  calculate_ratio(Sum(cs), Len(a) + Len(b))

\* upper bound on quick_ratio(): from the lengths alone
real_quick_ratio(a, b) ==
    calculate_ratio(Min2(Len(a), Len(b)), Len(a) + Len(b))

\* the similarity cutoff 0.6 as the fraction CutoffNum / CutoffDen
CutoffNum == 6
CutoffDen == 10

AtLeastCutoff(r) == r[1] * CutoffDen >= CutoffNum * r[2]

\* (score, x) tuple order used by heapq.nlargest
ScoredLess(r1, x1, r2, x2) ==
    \/ r1[1] * r2[2] < r2[1] * r1[2]
    \/ (r1[1] * r2[2] = r2[1] * r1[2] /\ StrLess(x1, x2))

\* difflib.get_close_matches(word, possibilities, n=1, cutoff=0.6):
\* the list holding the best scorer, or the empty list
get_close_matches(word, possibilities) ==
    LET score == [i \in 1..Len(possibilities) |->
                     IF /\ AtLeastCutoff(real_quick_ratio(possibilities[i], word))
                        /\ AtLeastCutoff(quick_ratio(possibilities[i], word))
                     THEN ratio(possibilities[i], word)
                     ELSE <<0, 1>>]
        Best(good, r) ==
            IF good = {} THEN <<>>
            ELSE <<possibilities[CHOOSE i \in good : \A j \in good :
                       ~ScoredLess(r[i], possibilities[i], r[j], possibilities[j])]>>
        Scored(r) == Best({i \in 1..Len(possibilities) : AtLeastCutoff(r[i])}, r)
    IN  Scored(score)


-----------------------------------------------------------------------------
(* Names used as inputs *)

Empty == <<>>
Al == <<"A","l">>
Ann == <<"A","n","n">>
Anne == <<"A","n","n","e">>
Annabelle == <<"A","n","n","a","b","e","l","l","e">>
Alice == <<"A","l","i","c","e">>
alice == <<"a","l","i","c","e">>
Albert == <<"A","l","b","e","r","t">>
BOB == <<"B","O","B">>
bob == <<"b","o","b">>
bobs == <<"b","o","b","s">>
Zed == <<"Z","e","d">>

\* display names the chat list can show
ContactPool == {Alice, Albert, Annabelle, Anne, BOB, bobs}
\* contact names a command can carry
NamePool == {Empty, Al, Ann, alice, bob, Zed, Anne}

\* longest known-contact list explored
MaxContacts == 2

SeqsUpTo(S, n) == UNION {[1..k -> S] : k \in 0..n}

ContactLists == SeqsUpTo(ContactPool, MaxContacts)

-----------------------------------------------------------------------------
(* Contact resolution *)

\* the first index of seq that satisfies Test, 0 when there is none
FirstIndex(seq, Test(_)) ==
    IF \E i \in 1..Len(seq) : Test(seq[i])
    THEN CHOOSE i \in 1..Len(seq) :
             Test(seq[i]) /\ \A j \in 1..(i - 1) : ~Test(seq[j])
    ELSE 0

\* find_best_contact_match with the fuzzy rule tried before the exact rule
find_best_contact_match_fuzzy_first(name, contacts) ==
    LET IsExact(c) == Lower(c) = Lower(name)
        IsPartial(c) == \/ Contains(Lower(name), Lower(c))
                        \/ Contains(Lower(c), Lower(name))
        Pick(exact, matches, partial) ==
            IF contacts = <<>> THEN name
            ELSE IF matches # <<>> THEN matches[1]
            ELSE IF exact # 0 THEN contacts[exact]
            ELSE IF partial # 0 THEN contacts[partial]
            ELSE name
    IN  Pick(FirstIndex(contacts, IsExact), get_close_matches(name, contacts),
             FirstIndex(contacts, IsPartial))

\* find_best_contact_match with the partial rule tried before the fuzzy rule
find_best_contact_match_partial_first(name, contacts) ==
    LET IsExact(c) == Lower(c) = Lower(name)
        IsPartial(c) == \/ Contains(Lower(name), Lower(c))
                        \/ Contains(Lower(c), Lower(name))
        Pick(exact, matches, partial) ==
            IF contacts = <<>> THEN name
            ELSE IF exact # 0 THEN contacts[exact]
            ELSE IF partial # 0 THEN contacts[partial]
            ELSE IF matches # <<>> THEN matches[1]
            ELSE name
    IN  Pick(FirstIndex(contacts, IsExact), get_close_matches(name, contacts),
             FirstIndex(contacts, IsPartial))

\* WhatsAppAIControlMCP.find_best_contact_match
find_best_contact_match(name, contacts) ==
    LET IsExact(c) == Lower(c) = Lower(name)
        IsPartial(c) == \/ Contains(Lower(name), Lower(c))
                        \/ Contains(Lower(c), Lower(name))
        Pick(exact, matches, partial) ==
            IF contacts = <<>> THEN name
            ELSE IF exact # 0 THEN contacts[exact]
            ELSE IF matches # <<>> THEN matches[1]
            ELSE IF partial # 0 THEN contacts[partial]
            ELSE name
    IN  Pick(FirstIndex(contacts, IsExact), get_close_matches(name, contacts),
             FirstIndex(contacts, IsPartial))

\* the contact matching of MCPServer.process_whatsapp_action
server_match_contact(contact, contacts) ==
    LET IsExact(c) == Lower(c) = Lower(contact)
        Pick(exact, matches) ==
            IF contact # <<>> /\ contacts # <<>>
            THEN IF exact # 0 THEN contacts[exact]
                 ELSE IF matches # <<>> THEN matches[1]
                 ELSE contact
            ELSE contact
    IN  Pick(FirstIndex(contacts, IsExact), get_close_matches(contact, contacts))

-----------------------------------------------------------------------------
(* The state after construction (__init__ of the client classes) *)

NoResult == [op |-> "none"]

\* the command loop has not been entered: monitor_with_commands and
\* monitor_with_interaction start at the loop condition, the input thread
\* is not started
LoopNotEntered ==
    /\ pc = [loop |-> "check", input |-> "none"]
    /\ input_queue = << >>
    /\ in_flight = << >>

\* MCPClient.__init__: self.response_futures = {}
NoRequests ==
    /\ response_futures = { }
    /\ calls = << >>
    /\ wire = << >>

\* MCPServer.__init__: self.clients = {}, self.user_sessions = {}; no
\* connection is accepted yet
NoConnections ==
    /\ clients = << >>
    /\ user_sessions = << >>
    /\ connections = << >>

\* self.last_contact = None; a remembered contact c is <<c>>
NoContact == << >>

Constructed(v) ==
    /\ variant = v
    /\ running = FALSE
    /\ auto_reply = FALSE
    /\ message_history = << >>
    /\ contact_list = << >>
    /\ last_contact = NoContact
    /\ use_mcp = FALSE
    /\ last_messages = << >>
    /\ chats = << >>
    /\ clock = 0
    /\ sendCalls = << >>
    /\ modelCalls = << >>
    /\ result = NoResult
    /\ LoopNotEntered
    /\ NoRequests
    /\ NoConnections

-----------------------------------------------------------------------------
(* Contact resolution as a pure function: the known contacts are drawn     *)
(* from ContactLists and the two matchers are applied to every name.       *)

InitResolve ==
    /\ variant = "MCP"
    /\ running = FALSE
    /\ auto_reply = FALSE
    /\ message_history = << >>
    /\ contact_list \in ContactLists
    /\ last_contact = NoContact
    /\ use_mcp = FALSE
    /\ last_messages = << >>
    /\ chats = << >>
    /\ clock = 0
    /\ sendCalls = << >>
    /\ modelCalls = << >>
    /\ result = NoResult
    /\ LoopNotEntered
    /\ NoRequests
    /\ NoConnections

Resolve(name) ==
    /\ result' = [op |-> "find_best_contact_match", name |-> name,
                  out |-> find_best_contact_match(name, contact_list)]
    /\ UNCHANGED <<variant, running, auto_reply, message_history, contact_list,
                   last_contact, use_mcp, last_messages, chats, clock,
                   sendCalls, modelCalls, loopVars, relayVars>>

ServerResolve(name) ==
    /\ result' = [op |-> "server_match_contact", name |-> name,
                  out |-> server_match_contact(name, contact_list)]
    /\ UNCHANGED <<variant, running, auto_reply, message_history, contact_list,
                   last_contact, use_mcp, last_messages, chats, clock,
                   sendCalls, modelCalls, loopVars, relayVars>>

NextResolve ==
    \/ \E name \in NamePool : Resolve(name)
    \/ \E name \in NamePool : ServerResolve(name)

SpecResolve == InitResolve /\ [][NextResolve]_vars


-----------------------------------------------------------------------------
(* The automation backend: what WhatsApp Web shows.  chats is the chat     *)
(* list in display order; each chat has a name and its messages, oldest    *)
(* first, each message a text and a type.                                  *)

Incoming == "incoming"
Outgoing == "outgoing"
You == <<"Y","o","u">>

\* seq[:count] instead: the oldest elements
PyTail_from_start(seq, count) == SubSeq(seq, 1, Min2(count, Len(seq)))

\* Python's seq[-count:]
PyTail(seq, count) ==
    LET start == 0 - count
        from == IF start < 0
                THEN (IF Len(seq) + start > 0 THEN Len(seq) + start ELSE 0)
                ELSE Min2(start, Len(seq))
    IN  SubSeq(seq, from + 1, Len(seq))

\* the last_message snippet get_chats scrapes for one chat
Snippet(chat) ==
    IF chat.msgs = <<>> THEN "" ELSE chat.msgs[Len(chat.msgs)].text

\* get_chats: name and last_message of every chat shown
get_chats(w) ==
    [i \in 1..Len(w) |-> [name |-> w[i].name, last_message |-> Snippet(w[i])]]

\* the chat get_chat_messages and send_message click: the first one whose
\* name equals chat_name case-insensitively, 0 when there is none
ExactChat(w, chat_name) ==
    LET Same(c) == Lower(c.name) = Lower(chat_name)
    IN  FirstIndex(w, Same)

\* WhatsAppAIControl.get_chat_messages
get_chat_messages(w, chat_name, count) ==
    LET i == ExactChat(w, chat_name)
        shown == PyTail(w[i].msgs, count)
    IN  IF i = 0 THEN <<>>
        ELSE [k \in 1..Len(shown) |->
                 [text |-> shown[k].text,
                  sender |-> IF shown[k].type = Incoming THEN chat_name ELSE You,
                  type |-> shown[k].type]]

\* a new message in a chat of which the page keeps the last keep messages
Deliver(msgs, m, keep) ==
    IF Len(msgs) < keep THEN Append(msgs, m)
    ELSE SubSeq(msgs, Len(msgs) - keep + 2, Len(msgs)) \o <<m>>

\* the page after send_message(chat_name, message) typed the message into
\* chat i and returned ok (i = 0: the chat was reached through the search box
\* and is not in the list shown)
AfterSend(w, i, message, ok, keep) ==
    IF ok /\ i # 0
    THEN [w EXCEPT ![i].msgs = Deliver(@, [text |-> message, type |-> Outgoing], keep)]
    ELSE w

\* the type of the last message of chat i, "none" for an empty chat
LastType(w, i) ==
    IF i = 0 \/ w[i].msgs = <<>> THEN "none" ELSE w[i].msgs[Len(w[i].msgs)].type

-----------------------------------------------------------------------------
(* The monitor loops.  One iteration polls the chat list and handles every *)
(* chat in order; an exception raised by generate_response leaves the      *)
(* iteration at that point.  st carries the iteration's view of the state. *)

\* generate_response raised
Raise == "raise"

\* len(self.message_history[chat_name]) > 50
HistoryCap == 50

\* the page keeps this many messages per chat in the monitor specifications
\* (the loops read only the last one)
MonitorKeep == 1

WithKey(f, k, v) == [x \in (DOMAIN f) \cup {k} |-> IF x = k THEN v ELSE f[x]]

MonitorSend(st, name, text, auto, sent) ==
    [chat |-> name, text |-> text, by |-> "monitor", auto |-> auto,
     lastType |-> LastType(st.world, ExactChat(st.world, name)), ok |-> sent]

\* the body of "for chat in chats" in WhatsAppAIControl.monitor_with_commands
AIControlChat(st, chat, auto, o) ==
    LET name == chat.name
        last_msg == chat.last_message
        hist0 == IF name \in DOMAIN st.hist THEN st.hist
                 ELSE WithKey(st.hist, name, <<>>)
        hist1 == [hist0 EXCEPT ![name] =
                     Append(@, [time |-> st.clk + 1, message |-> last_msg])]
        last_structured == get_chat_messages(st.world, name, 1)
        replying == /\ auto
                    /\ last_structured # <<>>
                    /\ last_structured[Len(last_structured)].type = Incoming
    IN  IF st.raised THEN st
        ELSE IF last_msg # "" /\ name \notin DOMAIN st.last
        THEN [st EXCEPT !.hist = hist0, !.last = WithKey(@, name, last_msg)]
        ELSE IF last_msg # "" /\ st.last[name] # last_msg
        THEN IF ~replying
             THEN [st EXCEPT !.hist = hist1, !.clk = @ + 1,
                             !.last = WithKey(@, name, last_msg)]
             ELSE IF o.reply = Raise
             THEN [st EXCEPT !.hist = hist1, !.clk = @ + 1,
                             !.models = Append(@, name), !.raised = TRUE]
             ELSE [st EXCEPT !.hist = hist1, !.clk = @ + 1,
                             !.models = Append(@, name),
                             !.sends = Append(@, MonitorSend(st, name, o.reply, auto, o.sent)),
                             !.world = AfterSend(@, ExactChat(@, name), o.reply,
                                                 o.sent, MonitorKeep),
                             !.last = WithKey(@, name, last_msg)]
        ELSE [st EXCEPT !.hist = hist0]

\* the body of "for chat in chats" in
\* WhatsAppInteractiveClient.monitor_with_interaction
InteractiveChat(st, chat, auto, o) ==
    LET name == chat.name
        last_msg == chat.last_message
        hist0 == IF name \in DOMAIN st.hist THEN st.hist
                 ELSE WithKey(st.hist, name, <<>>)
        appended == Append(hist0[name], [time |-> st.clk + 1, message |-> last_msg,
                                         direction |-> Incoming])
        kept == IF Len(appended) > HistoryCap THEN PyTail(appended, HistoryCap)
                ELSE appended
        hist1 == [hist0 EXCEPT ![name] = kept]
        hist2 == [hist1 EXCEPT ![name] =
                     Append(@, [time |-> st.clk + 2, message |-> o.reply,
                                direction |-> Outgoing])]
    IN  IF st.raised THEN st
        ELSE IF last_msg # "" /\ name \notin DOMAIN st.last
        THEN [st EXCEPT !.hist = hist0, !.last = WithKey(@, name, last_msg)]
        ELSE IF last_msg # "" /\ st.last[name] # last_msg
        THEN IF o.reply = Raise
             THEN [st EXCEPT !.hist = hist1, !.clk = @ + 1,
                             !.models = Append(@, name), !.raised = TRUE]
             ELSE IF ~auto
             THEN [st EXCEPT !.hist = hist1, !.clk = @ + 1,
                             !.models = Append(@, name),
                             !.last = WithKey(@, name, last_msg)]
             ELSE [st EXCEPT !.hist = IF o.sent THEN hist2 ELSE hist1,
                             !.clk = IF o.sent THEN @ + 2 ELSE @ + 1,
                             !.models = Append(@, name),
                             !.sends = Append(@, MonitorSend(st, name, o.reply, auto, o.sent)),
                             !.world = AfterSend(@, ExactChat(@, name), o.reply,
                                                 o.sent, MonitorKeep),
                             !.last = WithKey(@, name, last_msg)]
        ELSE [st EXCEPT !.hist = hist0]

RECURSIVE ForEachChat(_, _, _, _, _)
\* for chat in chats: ..., from chat k of the snapshot on
ForEachChat(st, snapshot, k, auto, os) ==
    IF k > Len(snapshot) THEN st
    ELSE ForEachChat(
             IF variant = "Interactive"
             THEN InteractiveChat(st, snapshot[k], auto, os[k])
             ELSE AIControlChat(st, snapshot[k], auto, os[k]),
             snapshot, k + 1, auto, os)

\* The chat poll of one iteration of the monitor loop: get_chats and the
\* loop over its chats.  replies: what generate_response may return;
\* sendResults: what send_message may return; maxClock: the history appends
\* explored.  The result keeps what the iteration did: whether it raised,
\* whether the one before it had, and the chat list get_chats returned.
PollChats(replies, sendResults, maxClock) ==
    /\ variant \in {"AIControl", "Interactive"}
    /\ \E os \in [1..Len(chats) -> [reply : replies, sent : sendResults]] :
         LET st0 == [hist |-> message_history, last |-> last_messages,
                     world |-> chats, clk |-> clock, sends |-> <<>>,
                     models |-> <<>>, raised |-> FALSE]
         IN  \E st \in {ForEachChat(st0, get_chats(chats), 1, auto_reply, os)} :
             /\ st.clk <= maxClock
             /\ message_history' = st.hist
             /\ last_messages' = st.last
             /\ chats' = st.world
             /\ clock' = st.clk
             /\ sendCalls' = st.sends
             /\ modelCalls' = st.models
             /\ result' = [op |-> "monitor", raised |-> st.raised,
                           retry |-> result.op = "monitor" /\ result.raised,
                           seen |-> get_chats(chats)]
    /\ UNCHANGED <<variant, running, auto_reply, contact_list, last_contact, use_mcp,
                   relayVars>>

\* the loop with "break" in its "except Exception" handler: no iteration
\* follows one that raised
MonitorIteration_leaving_on_error(replies, sendResults, maxClock) ==
    /\ running
    /\ ~(result.op = "monitor" /\ result.raised)
    /\ PollChats(replies, sendResults, maxClock)
    /\ UNCHANGED loopVars

\* One iteration of "while self.running and self.authenticated" that polls
\* the chats; an exception of the poll is caught by the loop's "except
\* Exception", which sleeps and goes on to the next iteration.
MonitorIteration(replies, sendResults, maxClock) ==
    /\ running
    /\ PollChats(replies, sendResults, maxClock)
    /\ UNCHANGED loopVars

\* somebody writes into chat i: the contact (incoming) or the account's
\* owner from another device (outgoing)
WorldMessage(i, text, type, keep) ==
    /\ chats' = [chats EXCEPT ![i].msgs = Deliver(@, [text |-> text, type |-> type], keep)]
    /\ UNCHANGED <<variant, running, auto_reply, message_history, contact_list,
                   last_contact, use_mcp, last_messages, clock,
                   sendCalls, modelCalls, result, loopVars, relayVars>>

\* run() up to the call of the monitor loop: logged in, running, the
\* operator has answered "Enable auto-reply?"
InitMonitor(variants, worlds) ==
    /\ variant \in variants
    /\ running = TRUE
    /\ auto_reply \in BOOLEAN
    /\ message_history = << >>
    /\ contact_list = << >>
    /\ last_contact = NoContact
    /\ use_mcp = FALSE
    /\ last_messages = << >>
    /\ chats \in worlds
    /\ clock = 0
    /\ sendCalls = << >>
    /\ modelCalls = << >>
    /\ result = NoResult
    /\ LoopNotEntered
    /\ NoRequests
    /\ NoConnections

EmptyChat(name) == [name |-> name, msgs |-> << >>]

\* history appends explored by SpecMonitor
MaxClock == 4

MonitorTexts == {"hi", "yo"}
MonitorReplies == {"ok", "yo", Raise}
MonitorWorlds == {<<EmptyChat(Alice)>>}

NextMonitor ==
    \/ MonitorIteration(MonitorReplies, BOOLEAN, MaxClock)
    \/ \E i \in 1..Len(chats) : \E text \in MonitorTexts :
           \E type \in {Incoming, Outgoing} : WorldMessage(i, text, type, MonitorKeep)

SpecMonitor ==
    InitMonitor({"AIControl", "Interactive"}, MonitorWorlds) /\ [][NextMonitor]_vars

\* history appends explored by SpecMonitorLive
LiveClock == 3

LiveReplies == {"ok", Raise}

\* the loops with contacts writing into the chats
NextMonitorLive ==
    \/ MonitorIteration(LiveReplies, BOOLEAN, LiveClock)
    \/ \E i \in 1..Len(chats) : \E text \in MonitorTexts :
           WorldMessage(i, text, Incoming, MonitorKeep)

\* The monitor loops keep iterating: each pass of the while loop ends in
\* asyncio.sleep and returns to the loop condition, which holds while
\* running does.
SpecMonitorLive ==
    /\ InitMonitor({"AIControl", "Interactive"}, MonitorWorlds)
    /\ [][NextMonitorLive]_vars
    /\ WF_vars(MonitorIteration(LiveReplies, BOOLEAN, LiveClock))

\* history appends explored by SpecHistory
LongClock == 52

\* The monitor loops over a long run with a scripted contact: it writes
\* only once the loop has seen the chat's current snippet, it writes "hi"
\* unless the snippet is "hi" and "yo" then, generate_response answers "ok"
\* and send_message succeeds.
ContactWrites(i) ==
    /\ \/ chats[i].msgs = << >>
       \/ /\ chats[i].name \in DOMAIN last_messages
          /\ last_messages[chats[i].name] = Snippet(chats[i])
    /\ WorldMessage(i, IF Snippet(chats[i]) = "hi" THEN "yo" ELSE "hi",
                    Incoming, MonitorKeep)

NextHistory ==
    \/ MonitorIteration({"ok"}, {TRUE}, LongClock)
    \/ \E i \in 1..Len(chats) : ContactWrites(i)

SpecHistory ==
    InitMonitor({"AIControl", "Interactive"}, MonitorWorlds) /\ [][NextHistory]_vars

-----------------------------------------------------------------------------
(* Commands.  The language model's answer to the parsing prompt is         *)
(* modelled by what the parser reads from it: whether re.search finds a    *)
(* brace-delimited substring, and what json.loads makes of that substring  *)
(* (an action dict, or a JSONDecodeError).  A dict field is a sequence:    *)
(* empty when the key is absent, else holding the value.                   *)

Absent == << >>
Some(v) == <<v>>
\* dict.get(key, default)
Get(field, default) == IF field = Absent THEN default ELSE field[1]

ActionData(action, contact, message, count, query_type, position) ==
    [action |-> action, contact |-> contact, message |-> message,
     count |-> count, query_type |-> query_type, position |-> position]

\* json.loads raised JSONDecodeError; a parsed dict d is <<d>>
Invalid == << >>
\* the model's answer: no braces; braces around invalid JSON; a JSON action
NoJsonReply == [braces |-> FALSE, json |-> Invalid, raises |-> FALSE]
BadJsonReply == [braces |-> TRUE, json |-> Invalid, raises |-> FALSE]
JsonReply(d) == [braces |-> TRUE, json |-> <<d>>, raises |-> FALSE]
\* generate_response raised
RaisingReply == [braces |-> FALSE, json |-> Invalid, raises |-> TRUE]

\* self._ordinal(n) without the test of n % 100: the suffix of the last digit
ordinal_by_last_digit(n) ==
    [n |-> n,
     suffix |-> IF n % 10 = 1 THEN "st"
                ELSE IF n % 10 = 2 THEN "nd"
                ELSE IF n % 10 = 3 THEN "rd"
                ELSE "th"]

\* self._ordinal(n): the number and its suffix, f"{n}{suffix}"
ordinal(n) ==
    [n |-> n,
     suffix |-> IF 10 <= n % 100 /\ n % 100 <= 20 THEN "th"
                ELSE IF n % 10 = 1 THEN "st"
                ELSE IF n % 10 = 2 THEN "nd"
                ELSE IF n % 10 = 3 THEN "rd"
                ELSE "th"]

\* "last" if position == 1 else f"{self._ordinal(position)} last"
position_text(position) ==
    IF position = 1 THEN <<"last">> ELSE <<ordinal(position), "last">>

\* position_text.capitalize(): the first character in upper case, the rest
\* in lower case; a text that begins with the digits of an ordinal is
\* left as it is
capitalize(text) == IF text = <<"last">> THEN <<"Last">> ELSE text

\* [msg for msg in messages] instead: no test of the type
OfType_ignoring_type(messages, type) == messages

\* [msg for msg in messages if msg["type"] == type]
OfType(messages, type) ==
    LET RECURSIVE Filter(_)
        Filter(k) == IF k > Len(messages) THEN << >>
                     ELSE IF messages[k].type = type
                          THEN <<messages[k]>> \o Filter(k + 1)
                          ELSE Filter(k + 1)
    IN  Filter(1)

\* seq[position - 1] instead: the index counted from the oldest element
PyIndexFromEnd_from_start(len, position) ==
    IF position >= 1 /\ position <= len THEN position ELSE 0

\* Python's seq[-position] for a list: the index read, 0 for IndexError
PyIndexFromEnd(len, position) ==
    LET k == 0 - position
        at == IF k < 0 THEN len + k + 1 ELSE k + 1
    IN  IF at >= 1 /\ at <= len THEN at ELSE 0

\* the chat WhatsAppAIControl.send_message types into: exact name, else the
\* first chat containing a name of 3 or more characters, else (0) whatever
\* the search box finds
SendTargetAIControl(w, chat_name) ==
    LET IsPartial(c) == Contains(Lower(chat_name), Lower(c.name)) /\ Len(chat_name) >= 3
    IN  IF ExactChat(w, chat_name) # 0 THEN ExactChat(w, chat_name)
        ELSE FirstIndex(w, IsPartial)

\* what an operation did, its assignment to self.auto_reply lost
Effect_keeping_auto_reply(res, sends, models, auto, contacts, last, world) ==
    [res |-> res, sends |-> sends, models |-> models, auto |-> auto_reply,
     contacts |-> contacts, last |-> last, world |-> world,
     relayed |-> use_mcp, stopped |-> FALSE, requests |-> << >>]

\* what an operation did: its result, its send_message and generate_response
\* calls, its send_request_and_wait calls, and the state it leaves
Effect(res, sends, models, auto, contacts, last, world) ==
    [res |-> res, sends |-> sends, models |-> models, auto |-> auto,
     contacts |-> contacts, last |-> last, world |-> world,
     relayed |-> use_mcp, stopped |-> FALSE, requests |-> << >>]

\* the send_message calls of "if self.send_message(contact, message):" with
\* a retry after a failed call
CommandSend_retrying(contact, message, ok) ==
    IF ok THEN <<[chat |-> contact, text |-> message, by |-> "command", ok |-> ok]>>
    ELSE <<[chat |-> contact, text |-> message, by |-> "command", ok |-> ok],
           [chat |-> contact, text |-> message, by |-> "command", ok |-> ok]>>

\* the send_message calls of "if self.send_message(contact, message):"
CommandSend(contact, message, ok) ==
    <<[chat |-> contact, text |-> message, by |-> "command", ok |-> ok]>>

\* the test "if not messages:" never taken
not_messages_never(messages) == FALSE

\* "not messages" for a list of messages: the list is empty
not_messages(messages) == messages = << >>

\* WhatsAppAIControl.execute_action.  in: sent, what send_message returns;
\* gen, what the second generate_response call returns (or Raise); keep, the
\* number of messages the page shows per chat.
\* A result of kind "exception" is an exception leaving the method.
execute_action(d, w, auto, sent, gen, keep) ==
    LET action == Get(d.action, "")
        contact == Get(d.contact, Empty)
        Same(res) == Effect(res, << >>, << >>, auto, contact_list, last_contact, w)
    IN  IF action = "send"
        THEN LET message == Get(d.message, "")
             IN  Effect(IF sent THEN [kind |-> "sent", contact |-> contact, message |-> message]
                        ELSE [kind |-> "send_failed", contact |-> contact],
                        CommandSend(contact, message, sent), << >>, auto,
                        contact_list, last_contact,
                        AfterSend(w, SendTargetAIControl(w, contact), message, sent, keep))
        ELSE IF action = "list"
        THEN IF get_chats(w) = << >> THEN Same([kind |-> "no_chats"])
             ELSE Same([kind |-> "list",
                        shown |-> [i \in 1..Min2(15, Len(w)) |-> [n |-> i, name |-> w[i].name]]])
        ELSE IF action = "summary"
        THEN LET messages == get_chat_messages(w, contact, 20)
                 prompt == [k \in 1..Len(messages) |->
                               [sender |-> messages[k].sender, text |-> messages[k].text]]
                 call == [for |-> "summary", prompt |-> prompt]
             IN  IF not_messages(messages) THEN Same([kind |-> "no_messages", contact |-> contact])
                 ELSE Effect(IF gen = Raise THEN [kind |-> "exception", what |-> "generate_response"]
                             ELSE [kind |-> "summary", contact |-> contact, text |-> gen],
                             << >>, <<call>>, auto, contact_list, last_contact, w)
        ELSE IF action = "suggest"
        THEN LET messages == get_chat_messages(w, contact, 10)
                 incoming_msgs == OfType(messages, Incoming)
                 last3 == PyTail(incoming_msgs, 3)
                 context == IF incoming_msgs # << >>
                            THEN [k \in 1..Len(last3) |-> last3[k].text]
                            ELSE <<"No messages">>
                 call == [for |-> "suggest", prompt |-> context]
             IN  Effect(IF gen = Raise THEN [kind |-> "exception", what |-> "generate_response"]
                        ELSE [kind |-> "suggestions", contact |-> contact, text |-> gen],
                        << >>, <<call>>, auto, contact_list, last_contact, w)
        ELSE IF action = "read"
        THEN LET count == Get(d.count, 10)
                 query_type == Get(d.query_type, "all")
                 position == Get(d.position, 1)
                 messages == get_chat_messages(w, contact, count)
                 incoming == OfType(messages, Incoming)
                 outgoing == OfType(messages, Outgoing)
                 at == PyIndexFromEnd(Len(incoming), position)
                 recent == PyTail(messages, 5)
             IN  IF not_messages(messages) THEN Same([kind |-> "no_messages", contact |-> contact])
                 ELSE IF query_type = "last_from_contact"
                 THEN IF incoming # << >>
                      THEN Same([kind |-> "last_from_contact", contact |-> contact,
                                 text |-> incoming[Len(incoming)].text])
                      ELSE Same([kind |-> "none_from_contact", contact |-> contact])
                 ELSE IF query_type = "position_from_contact"
                 THEN IF incoming # << >> /\ Len(incoming) >= position
                      THEN IF at = 0 THEN Same([kind |-> "exception", what |-> "IndexError"])
                           ELSE Same([kind |-> "position_message",
                                      position_text |-> position_text(position),
                                      heading |-> capitalize(position_text(position)),
                                      contact |-> contact, text |-> incoming[at].text])
                      ELSE Same([kind |-> "not_enough", contact |-> contact,
                                 found |-> Len(incoming)])
                 ELSE IF query_type = "last_from_me"
                 THEN IF outgoing # << >>
                      THEN Same([kind |-> "last_from_me", contact |-> contact,
                                 text |-> outgoing[Len(outgoing)].text])
                      ELSE Same([kind |-> "none_from_me", contact |-> contact])
                 ELSE Same([kind |-> "recent", contact |-> contact,
                            lines |-> [k \in 1..Len(recent) |->
                                          [type |-> recent[k].type, text |-> recent[k].text]]])
        ELSE IF action = "auto_on"
        THEN Effect([kind |-> "auto_on"], << >>, << >>, TRUE, contact_list, last_contact, w)
        ELSE IF action = "auto_off"
        THEN Effect([kind |-> "auto_off"], << >>, << >>, FALSE, contact_list, last_contact, w)
        ELSE IF action = "status"
        THEN Same([kind |-> "status", auto |-> auto])
        ELSE IF action = "error"
        THEN Same([kind |-> "error_action",
                   message |-> Get(d.message, "Command not understood")])
        ELSE Same([kind |-> "unknown_action"])

\* WhatsAppAIControl.handle_direct_command
handle_direct_command(command, w, auto, sent, gen, keep) ==
    LET cmd_lower == Lower(command)
        Has(word) == Contains(word, cmd_lower)
        action == IF Has(<<"l","i","s","t">>) \/ Has(<<"c","o","n","t","a","c","t","s">>)
                  THEN "list"
                  ELSE IF Has(<<"a","u","t","o">>) /\ Has(<<"o","n">>) THEN "auto_on"
                  ELSE IF Has(<<"a","u","t","o">>) /\ Has(<<"o","f","f">>) THEN "auto_off"
                  ELSE IF Has(<<"s","t","a","t","u","s">>) THEN "status"
                  ELSE ""
    IN  IF action # ""
        THEN execute_action(ActionData(Some(action), Absent, Absent, Absent, Absent, Absent),
                            w, auto, sent, gen, keep)
        ELSE Effect([kind |-> "not_understood"], << >>, << >>, auto,
                    contact_list, last_contact, w)

\* the generate_response call that parses a command
ParseCall(prompt, referring) ==
    [for |-> "parse", prompt |-> prompt, referring |-> referring]

\* an effect with one more generate_response call made before it
AfterCall(call, eff) == [eff EXCEPT !.models = <<call>> \o @]

\* process_command without its "except Exception": the exception leaves
\* the method
Caught_propagating(eff) == eff

\* except Exception as e: return f"Error: {str(e)}"
Caught(eff) ==
    IF eff.res.kind = "exception"
    THEN [eff EXCEPT !.res = [kind |-> "error", what |-> eff.res.what]]
    ELSE eff

\* WhatsAppAIControl.process_command after the special commands
ParseAIControl(command, reply, w, auto, sent, gen, keep) ==
    LET call == ParseCall(command, NoContact)
        Same(res) == Effect(res, << >>, << >>, auto, contact_list, last_contact, w)
    IN  Caught(AfterCall(call,
            IF reply.raises THEN Same([kind |-> "exception", what |-> "generate_response"])
            ELSE IF reply.braces
            THEN IF reply.json = Invalid
                 THEN Same([kind |-> "exception", what |-> "JSONDecodeError"])
                 ELSE execute_action(reply.json[1], w, auto, sent, gen, keep)
            ELSE handle_direct_command(command, w, auto, sent, gen, keep)))

-----------------------------------------------------------------------------
(* WhatsAppAIControlMCP: standalone (direct) and relay-mediated commands *)

\* the chat WhatsAppAIControlMCP.get_chat_messages clicks: exact name, else
\* the first chat whose name contains chat_name or is contained in it
ChatMCP(w, chat_name) ==
    LET IsPartial(c) == \/ Contains(Lower(chat_name), Lower(c.name))
                        \/ Contains(Lower(c.name), Lower(chat_name))
    IN  IF ExactChat(w, chat_name) # 0 THEN ExactChat(w, chat_name)
        ELSE FirstIndex(w, IsPartial)

\* WhatsAppAIControlMCP.get_chat_messages (every message text of the page is
\* longer than one character and is none of the filtered interface texts)
get_chat_messages_mcp(w, chat_name, count) ==
    LET i == ChatMCP(w, chat_name)
        shown == PyTail(w[i].msgs, count)
    IN  IF i = 0 THEN << >>
        ELSE [k \in 1..Len(shown) |->
                 [text |-> shown[k].text,
                  sender |-> IF shown[k].type = Incoming THEN chat_name ELSE You,
                  type |-> shown[k].type]]

\* the chat WhatsAppAIControlMCP.send_message types into: exact name, else
\* (0) whatever the search box finds
SendTargetMCP(w, chat_name) == ExactChat(w, chat_name)

\* [chat['name'] for chat in chats]
ChatNames(w) == [i \in 1..Len(w) |-> w[i].name]

\* for i, contact in enumerate(contacts[:15], 1)
Numbered(contacts) ==
    [i \in 1..Min2(15, Len(contacts)) |-> [n |-> i, name |-> contacts[i]]]

\* WhatsAppAIControlMCP.execute_action_direct with self.use_mcp false
execute_action_direct(d, w, auto, sent, gen, keep) ==
    LET action == Get(d.action, "")
        Same(res) == Effect(res, << >>, << >>, auto, contact_list, last_contact, w)
        \* the branches that begin with
        \* contact = self.find_best_contact_match(contact); self.last_contact = contact
        About(contact) ==
            LET Remembering(res) ==
                    Effect(res, << >>, << >>, auto, contact_list, Some(contact), w)
                Read(messages) ==
                    IF messages = << >>
                    THEN Remembering([kind |-> "no_messages", contact |-> contact])
                    ELSE Remembering([kind |-> "messages", contact |-> contact,
                                      lines |-> PyTail(messages, 5)])
                \* "\n".join(messages[-10:]) and "\n".join(messages[-5:]) are
                \* applied to a list of dicts
                Join(messages, none) ==
                    IF messages = << >>
                    THEN Remembering([kind |-> none, contact |-> contact])
                    ELSE Remembering([kind |-> "exception", what |-> "TypeError"])
            IN  IF action = "send"
                THEN LET message == Get(d.message, "")
                     IN  Effect(IF sent
                                THEN [kind |-> "sent", contact |-> contact,
                                      message |-> message]
                                ELSE [kind |-> "send_failed", contact |-> contact],
                                CommandSend(contact, message, sent), << >>, auto,
                                contact_list, Some(contact),
                                AfterSend(w, SendTargetMCP(w, contact), message, sent, keep))
                ELSE IF action = "read"
                THEN Read(get_chat_messages_mcp(w, contact, 10))
                ELSE IF action = "summary"
                THEN Join(get_chat_messages_mcp(w, contact, 20), "no_messages_to_summarize")
                ELSE Join(get_chat_messages_mcp(w, contact, 10), "no_conversation")
    IN  IF action \in {"send", "read", "summary", "suggest"}
        THEN About(find_best_contact_match(Get(d.contact, Empty), contact_list))
        ELSE IF action = "list"
        THEN Effect([kind |-> "list", count |-> Len(w), shown |-> Numbered(ChatNames(w))],
                    << >>, << >>, auto, ChatNames(w), last_contact, w)
        ELSE IF action = "auto_on"
        THEN Effect([kind |-> "auto_on"], << >>, << >>, TRUE, contact_list, last_contact, w)
        ELSE IF action = "auto_off"
        THEN Effect([kind |-> "auto_off"], << >>, << >>, FALSE, contact_list, last_contact, w)
        ELSE Same([kind |-> "unknown_action"])

Pronouns ==
    {<<"h","i","m">>, <<"h","e","r">>, <<"t","h","e","m">>,
     <<"t","h","e","i","r">>, <<"h","i","s">>}

\* self.last_contact is neither None nor ""
Truthy(last) == last # NoContact /\ last[1] # Empty

\* WhatsAppAIControlMCP.process_command_direct
process_command_direct(command, reply, w, auto, sent, gen, keep) ==
    LET refers == /\ Truthy(last_contact)
                  /\ \E pronoun \in Pronouns : Contains(pronoun, Lower(command))
        call == ParseCall(command, IF refers THEN last_contact ELSE NoContact)
        Same(res) == Effect(res, << >>, << >>, auto, contact_list, last_contact, w)
    IN  AfterCall(call,
            IF reply.raises THEN Same([kind |-> "exception", what |-> "generate_response"])
            ELSE IF reply.braces /\ reply.json # Invalid
            THEN execute_action_direct(reply.json[1], w, auto, sent, gen, keep)
            ELSE Same([kind |-> "can_help_with"]))

\* MCPServer.process_whatsapp_action: the content of the server's answer
process_whatsapp_action(d, contacts) ==
    LET action == Get(d.action, "None")
        Content(contact, message, more) ==
            [action |-> d.action, contact |-> contact, message |-> message,
             count |-> Absent, query_type |-> Absent, more |-> more]
    IN  IF action = "list" THEN Content(Absent, Absent, "contacts")
        ELSE IF action \in {"send", "read", "summary", "suggest"}
        THEN Content(Some(server_match_contact(Get(d.contact, Empty), contacts)),
                     IF action = "send" THEN d.message ELSE Absent,
                     IF action = "send" THEN "sent" ELSE "")
        ELSE IF action \in {"auto_on", "auto_off", "status"}
        THEN Content(Absent, Absent, "")
        ELSE Content(Absent, Absent, "result")

\* no response reaches send_request_and_wait within its timeout
NoResponse == [response_type |-> "None"]

\* MCPServer.handle_whatsapp_ai_command as seen by the waiting client.
\* relay.up: the request is sent and the server answers; relay.reply: the
\* answer of the server's language model.  An "error" message of the server
\* completes no pending request (MCPClient.handle_message only logs it).
Response(relay, contacts) ==
    IF ~relay.up \/ relay.reply.raises THEN NoResponse
    ELSE IF relay.reply.braces
    THEN IF relay.reply.json = Invalid THEN NoResponse
         ELSE [response_type |-> "whatsapp_command_result",
               content |-> process_whatsapp_action(relay.reply.json[1], contacts)]
    ELSE [response_type |-> "ai_parse_error"]

\* WhatsAppAIControlMCP.process_command_mcp on a whatsapp_command_result
execute_relayed(content, w, auto, sent, gen, keep) ==
    LET action == Get(content.action, "None")
        contact == Get(content.contact, <<"N","o","n","e">>)
        Same(res) == Effect(res, << >>, << >>, auto, contact_list, last_contact, w)
    IN  IF action = "list"
        THEN Same([kind |-> "list", count |-> Len(contact_list),
                   shown |-> Numbered(contact_list)])
        ELSE IF action = "send"
        THEN LET message == Get(content.message, "None")
             IN  Effect(IF sent THEN [kind |-> "sent", contact |-> contact, message |-> message]
                        ELSE [kind |-> "send_failed", contact |-> contact],
                        CommandSend(contact, message, sent), << >>, auto,
                        contact_list, last_contact,
                        AfterSend(w, SendTargetMCP(w, contact), message, sent, keep))
        ELSE IF action = "read"
        THEN LET count == Get(content.count, 10)
                 query_type == Get(content.query_type, "all")
                 messages == get_chat_messages_mcp(w, contact, count)
                 incoming == OfType(messages, Incoming)
                 outgoing == OfType(messages, Outgoing)
                 recent == PyTail(messages, 5)
             IN  IF messages = << >> THEN Same([kind |-> "no_messages", contact |-> contact])
                 ELSE IF query_type = "last_from_contact"
                 THEN IF incoming # << >>
                      THEN Same([kind |-> "last_from_contact", contact |-> contact,
                                 text |-> incoming[Len(incoming)].text])
                      ELSE Same([kind |-> "none_from_contact", contact |-> contact])
                 ELSE IF query_type = "position_from_contact"
                 \* "position" is not defined in process_command_mcp
                 THEN IF incoming # << >>
                      THEN Same([kind |-> "exception", what |-> "NameError"])
                      ELSE Same([kind |-> "not_enough", contact |-> contact,
                                 found |-> Len(incoming)])
                 ELSE IF query_type = "last_from_me"
                 THEN IF outgoing # << >>
                      THEN Same([kind |-> "last_from_me", contact |-> contact,
                                 text |-> outgoing[Len(outgoing)].text])
                      ELSE Same([kind |-> "none_from_me", contact |-> contact])
                 ELSE Same([kind |-> "recent", contact |-> contact,
                            lines |-> [k \in 1..Len(recent) |->
                                          [type |-> recent[k].type, text |-> recent[k].text]]])
        ELSE IF action = "summary"
        THEN LET messages == get_chat_messages_mcp(w, contact, 20)
                 prompt == [k \in 1..Len(messages) |->
                               [sender |-> messages[k].sender, text |-> messages[k].text]]
                 call == [for |-> "summary", prompt |-> prompt]
             IN  IF messages = << >>
                 THEN Same([kind |-> "no_messages_to_summarize", contact |-> contact])
                 ELSE Effect(IF gen = Raise THEN [kind |-> "exception", what |-> "generate_response"]
                             ELSE [kind |-> "summary", contact |-> contact, text |-> gen],
                             << >>, <<call>>, auto, contact_list, last_contact, w)
        ELSE IF action = "suggest"
        THEN LET messages == get_chat_messages_mcp(w, contact, 10)
                 incoming_msgs == OfType(messages, Incoming)
                 last3 == PyTail(incoming_msgs, 3)
                 context == IF incoming_msgs # << >>
                            THEN [k \in 1..Len(last3) |-> last3[k].text]
                            ELSE <<"No messages">>
                 call == [for |-> "suggest", prompt |-> context]
             IN  IF messages = << >>
                 THEN Same([kind |-> "no_conversation", contact |-> contact])
                 ELSE Effect(IF gen = Raise THEN [kind |-> "exception", what |-> "generate_response"]
                             ELSE [kind |-> "suggestions", contact |-> contact, text |-> gen],
                             << >>, <<call>>, auto, contact_list, last_contact, w)
        ELSE IF action = "auto_on"
        THEN Effect([kind |-> "auto_on"], << >>, << >>, TRUE, contact_list, last_contact, w)
        ELSE IF action = "auto_off"
        THEN Effect([kind |-> "auto_off"], << >>, << >>, FALSE, contact_list, last_contact, w)
        ELSE Same([kind |-> "content", content |-> content])

\* self.contact_list[:20]
First20(contacts) == SubSeq(contacts, 1, Min2(20, Len(contacts)))

\* the message process_command_mcp hands to send_request_and_wait
AICommandRequest(command) ==
    [type |-> "whatsapp_ai_command", command |-> command,
     context |-> [last_contact |-> last_contact,
                  contact_list |-> First20(contact_list)]]

\* process_command_mcp without "self.use_mcp = False" after a missing
\* response
process_command_mcp_keeping_relay(command, reply, relay, w, auto, sent, gen, keep) ==
    LET response == Response(relay, First20(contact_list))
        Same(res) == Effect(res, << >>, << >>, auto, contact_list, last_contact, w)
        Requested(eff) == [eff EXCEPT !.requests = <<AICommandRequest(command)>>]
    IN  Requested(
            IF response.response_type = "None"
            THEN process_command_direct(command, reply, w, auto, sent, gen, keep)
            ELSE IF response.response_type = "whatsapp_command_result"
            THEN execute_relayed(response.content, w, auto, sent, gen, keep)
            ELSE Same([kind |-> "could_not_understand"]))

\* WhatsAppAIControlMCP.process_command_mcp; the effect's relayed field is
\* the value it leaves in self.use_mcp
process_command_mcp(command, reply, relay, w, auto, sent, gen, keep) ==
    LET response == Response(relay, First20(contact_list))
        Same(res) == Effect(res, << >>, << >>, auto, contact_list, last_contact, w)
        Requested(eff) == [eff EXCEPT !.requests = <<AICommandRequest(command)>>]
    IN  Requested(
            IF response.response_type = "None"
            THEN [process_command_direct(command, reply, w, auto, sent, gen, keep)
                      EXCEPT !.relayed = FALSE]
            ELSE IF response.response_type = "whatsapp_command_result"
            THEN execute_relayed(response.content, w, auto, sent, gen, keep)
            ELSE Same([kind |-> "could_not_understand"]))

\* WhatsAppAIControlMCP.get_status
get_status(auto) ==
    [kind |-> "system_status", mcp_mode |-> use_mcp, auto |-> auto,
     last_contact |-> IF Truthy(last_contact) THEN last_contact ELSE NoContact,
     contacts_loaded |-> Len(contact_list)]

-----------------------------------------------------------------------------
(* process_command: one command typed by the operator *)

Help == <<"h", "e", "l", "p">>
Question == <<"?">>
H == <<"h">>
Quit == <<"q", "u", "i", "t">>
Exit == <<"e", "x", "i", "t">>
Stop == <<"s", "t", "o", "p">>
Q == <<"q">>
Bye == <<"b", "y", "e">>
Status == <<"s", "t", "a", "t", "u", "s">>

\* WhatsAppAIControl.process_command comparing command, not command.lower()
process_command_aicontrol_case_sensitive(command, reply, w, auto, sent, gen, keep) ==
    LET Same(res) == Effect(res, << >>, << >>, auto, contact_list, last_contact, w)
    IN  IF command \in {Help, Question} THEN Same([kind |-> "help"])
        ELSE IF command \in {Quit, Exit, Stop}
        THEN [Same([kind |-> "stopping"]) EXCEPT !.stopped = TRUE]
        ELSE ParseAIControl(command, reply, w, auto, sent, gen, keep)

\* WhatsAppAIControl.process_command
process_command_aicontrol(command, reply, w, auto, sent, gen, keep) ==
    LET Same(res) == Effect(res, << >>, << >>, auto, contact_list, last_contact, w)
    IN  IF Lower(command) \in {Help, Question} THEN Same([kind |-> "help"])
        ELSE IF Lower(command) \in {Quit, Exit, Stop}
        THEN [Same([kind |-> "stopping"]) EXCEPT !.stopped = TRUE]
        ELSE ParseAIControl(command, reply, w, auto, sent, gen, keep)

\* WhatsAppAIControlMCP.process_command with "if self.use_mcp" always taken
process_command_always_relayed(command, reply, relay, w, auto, sent, gen, keep) ==
    LET Same(res) == Effect(res, << >>, << >>, auto, contact_list, last_contact, w)
    IN  IF Lower(command) \in {Help, Question, H} THEN Same([kind |-> "help"])
        ELSE IF Lower(command) \in {Quit, Exit, Stop, Q, Bye}
        THEN [Same([kind |-> "stopping"]) EXCEPT !.stopped = TRUE]
        ELSE IF Lower(command) = Status THEN Same(get_status(auto))
        ELSE Caught(process_command_mcp(command, reply, relay, w, auto, sent, gen, keep))

\* WhatsAppAIControlMCP.process_command
process_command(command, reply, relay, w, auto, sent, gen, keep) ==
    LET Same(res) == Effect(res, << >>, << >>, auto, contact_list, last_contact, w)
    IN  IF Lower(command) \in {Help, Question, H} THEN Same([kind |-> "help"])
        ELSE IF Lower(command) \in {Quit, Exit, Stop, Q, Bye}
        THEN [Same([kind |-> "stopping"]) EXCEPT !.stopped = TRUE]
        ELSE IF Lower(command) = Status THEN Same(get_status(auto))
        ELSE IF use_mcp
        THEN Caught(process_command_mcp(command, reply, relay, w, auto, sent, gen, keep))
        ELSE Caught(process_command_direct(command, reply, w, auto, sent, gen, keep))

\* The operator enters a command and process_command runs to its return.
\* in: reply, the language model's answer to the client's parsing prompt;
\* relay, the relay server's part; sent, gen, keep as in execute_action.
ProcessCommand(command, reply, relay, sent, gen, keep) ==
    /\ running
    /\ variant \in {"AIControl", "MCP"}
    /\ \E eff \in {IF variant = "AIControl"
                   THEN process_command_aicontrol(command, reply, chats, auto_reply,
                                                  sent, gen, keep)
                   ELSE process_command(command, reply, relay, chats, auto_reply,
                                        sent, gen, keep)} :
         /\ running' = ~eff.stopped
         /\ auto_reply' = eff.auto
         /\ contact_list' = eff.contacts
         /\ last_contact' = eff.last
         /\ use_mcp' = eff.relayed
         /\ chats' = eff.world
         /\ sendCalls' = eff.sends
         /\ modelCalls' = eff.models
         /\ result' = [op |-> "process_command", command |-> command,
                       reply |-> reply, relay |-> relay, sent |-> sent,
                       gen |-> gen, out |-> eff.res, requests |-> eff.requests]
    /\ UNCHANGED <<variant, message_history, last_messages, clock, relayVars>>

\* "if self.use_mcp and mcp_task and mcp_task.done()": the task of
\* receive_messages is done (the connection closed, or the receiver
\* stopped) and the loop leaves relay mode
MCPTaskDone ==
    /\ variant = "MCP"
    /\ use_mcp
    /\ use_mcp' = FALSE
    /\ sendCalls' = << >>
    /\ modelCalls' = << >>
    /\ result' = [op |-> "connection_lost"]
    /\ UNCHANGED <<variant, running, auto_reply, message_history, contact_list,
                   last_contact, last_messages, chats, clock, relayVars>>

\* an iteration of monitor_with_commands that finds the receiver task done
ConnectionLoss ==
    /\ running
    /\ MCPTaskDone
    /\ UNCHANGED loopVars

\* run() up to the command loop: logged in, contacts loaded from the chat
\* list (none when get_chats failed), the operator has answered "Enable
\* auto-reply?"; WhatsAppAIControlMCP runs with or without --mcp
InitCommands(worlds) ==
    /\ variant \in {"AIControl", "MCP"}
    /\ running = TRUE
    /\ auto_reply \in BOOLEAN
    /\ message_history = << >>
    /\ chats \in worlds
    /\ contact_list \in (IF variant = "MCP" THEN {ChatNames(chats), << >>} ELSE {<< >>})
    /\ last_contact = NoContact
    /\ use_mcp \in (IF variant = "MCP" THEN BOOLEAN ELSE {FALSE})
    /\ last_messages = << >>
    /\ clock = 0
    /\ sendCalls = << >>
    /\ modelCalls = << >>
    /\ result = NoResult
    /\ LoopNotEntered
    /\ NoRequests
    /\ NoConnections

\* the relay is not used, or does not answer
NoRelay == [up |-> FALSE, reply |-> NoJsonReply]
\* the relay answers from its language model's reply
Relayed(reply) == [up |-> TRUE, reply |-> reply]

\* the action a pair of inputs asks for, "" when it carries no action
AskedAction(reply, relay) ==
    LET r == IF relay.up THEN relay.reply ELSE reply
    IN  IF r.braces /\ ~r.raises /\ r.json # Invalid THEN Get(r.json[1].action, "") ELSE ""

\* Every combination of inputs that process_command can tell apart: a reply
\* is consulted by the client when the relay is unused or silent, by the
\* server otherwise; sent matters to a send, gen to a summary or suggest.
Processing(inputs, keep) ==
    \E in \in inputs : \E command \in {in[1]} : \E r \in {in[2]} :
        \E io \in {[reply |-> r, relay |-> NoRelay]} \cup
                  (IF use_mcp THEN {[reply |-> NoJsonReply, relay |-> Relayed(r)]}
                   ELSE { }) :
            \E sent \in (IF AskedAction(io.reply, io.relay) = "send"
                         THEN BOOLEAN ELSE {TRUE}) :
                \E gen \in (IF AskedAction(io.reply, io.relay) \in {"summary", "suggest"}
                            THEN {"fine", Raise} ELSE {"fine"}) :
                    ProcessCommand(command, io.reply, io.relay, sent, gen, keep)

\* a command is entered and processed to its result
Commands(inputs, keep) ==
    /\ Processing(inputs, keep)
    /\ UNCHANGED loopVars

ListMyContacts == <<"l", "i", "s", "t", " ", "m", "y", " ", "c", "o", "n", "t", "a", "c", "t", "s">>
GibberishXyz == <<"g", "i", "b", "b", "e", "r", "i", "s", "h", " ", "x", "y", "z">>
AutoOn == <<"a", "u", "t", "o", " ", "o", "n">>
AutoOff == <<"a", "u", "t", "o", " ", "o", "f", "f">>
AutoOnOff == <<"a", "u", "t", "o", " ", "o", "n", " ", "o", "f", "f">>
AutoOffContacts == <<"a", "u", "t", "o", " ", "o", "f", "f", " ", "c", "o", "n", "t", "a", "c", "t", "s">>
AutoOffStatus == <<"a", "u", "t", "o", " ", "o", "f", "f", " ", "s", "t", "a", "t", "u", "s">>
WhatStatus == <<"w", "h", "a", "t", " ", "s", "t", "a", "t", "u", "s">>
TellHimHi == <<"t", "e", "l", "l", " ", "h", "i", "m", " ", "h", "i">>

SpecialCommands == {Help, Question, H, Quit, Bye, Status}
KeywordCommands ==
    {ListMyContacts, GibberishXyz, AutoOn, AutoOff, AutoOnOff, AutoOffContacts,
     AutoOffStatus, WhatStatus, TellHimHi}

Only(action) == ActionData(Some(action), Absent, Absent, Absent, Absent, Absent)
SendData(contact, message) ==
    ActionData(Some("send"), Some(contact), message, Absent, Absent, Absent)
AboutData(action, contact) ==
    ActionData(Some(action), Some(contact), Absent, Absent, Absent, Absent)
ReadData(contact, count, query_type, position) ==
    ActionData(Some("read"), contact, Absent, count, query_type, position)

QueryTypes == {"all", "last_from_contact", "last_from_me", "position_from_contact"}

\* the actions the language model is made to answer in Spec
CommandActions ==
    {SendData(c, Some("ok")) : c \in {bob, Zed}}
    \cup {SendData(Zed, Absent), SendData(Empty, Some("ok")),
          ActionData(Some("send"), Absent, Some("ok"), Absent, Absent, Absent)}
    \cup {Only(a) : a \in {"list", "auto_on", "auto_off", "status", "error", "dance"}}
    \cup {ActionData(Some("error"), Absent, Some("no"), Absent, Absent, Absent),
          ActionData(Absent, Absent, Absent, Absent, Absent, Absent)}
    \cup {AboutData(a, c) : a \in {"summary", "suggest"}, c \in {alice, Zed}}
    \cup {ReadData(Some(c), Absent, Absent, Absent) : c \in {alice, Zed}}
    \cup {ReadData(Some(alice), Absent, Some(q), Some(2)) : q \in QueryTypes}

NoActionReplies == {NoJsonReply, BadJsonReply, RaisingReply}
ActionReplies == {JsonReply(d) : d \in CommandActions}

\* the page keeps this many messages per chat in Spec
CommandKeep == 1

CommandWorlds ==
    {<<[name |-> Alice, msgs |-> <<[text |-> "hi", type |-> Incoming]>>],
       EmptyChat(BOB)>>}

Init == InitCommands(CommandWorlds)

\* The commands with the replies each is paired with.  A special command
\* consults no reply; the keywords of a command matter only to a reply
\* without braces; a reply that raises, is no JSON or carries an action is
\* handled the same whatever the command's words.
CommandInputs ==
    ((SpecialCommands \cup KeywordCommands) \X {NoJsonReply})
    \cup ({ListMyContacts, AutoOn} \X {BadJsonReply})
    \cup ({GibberishXyz} \X (NoActionReplies \cup ActionReplies))

Next ==
    \/ Commands(CommandInputs, CommandKeep)
    \/ ConnectionLoss

Spec == Init /\ [][Next]_vars

-----------------------------------------------------------------------------
(* Reading: every read the language model can ask for, on every window of  *)
(* incoming and outgoing messages the page can show for one chat.          *)

\* the longest window explored
MaxWindow == 4

\* the k-th message of a window has the k-th of these texts
WindowTexts == <<"hi", "yo", "sup", "bye", "one", "two", "six">>

Window(types) ==
    [k \in 1..Len(types) |-> [text |-> WindowTexts[k], type |-> types[k]]]

ReadWorlds ==
    {<<[name |-> Alice, msgs |-> Window(types)]>> :
        types \in SeqsUpTo({Incoming, Outgoing}, MaxWindow)}

Positions == (0 - 1)..(MaxWindow + 1)

\* "count" in the action: absent, or shorter than the longest window
Counts == {Absent, Some(2)}

ReadActions ==
    {ReadData(Some(alice), c, q, Absent) :
        c \in Counts,
        q \in {Absent, Some("all"), Some("last_from_contact"), Some("last_from_me")}}
    \cup {ReadData(Some(alice), c, Some("position_from_contact"), p) :
             c \in Counts, p \in {Absent} \cup {Some(n) : n \in Positions}}

InitRead == InitCommands(ReadWorlds)

NextRead ==
    Commands({GibberishXyz} \X {JsonReply(d) : d \in ReadActions}, MaxWindow)

SpecRead == InitRead /\ [][NextRead]_vars

-----------------------------------------------------------------------------
(* Recent messages: the reads that show the conversation or the last      *)
(* message of one direction, on windows longer than the five shown.        *)

\* the longest window explored
MaxRecent == 6

RecentWorlds ==
    {<<[name |-> Alice, msgs |-> Window(types)]>> :
        types \in SeqsUpTo({Incoming, Outgoing}, MaxRecent)}

RecentActions ==
    {ReadData(Some(alice), c, q, Absent) :
        c \in Counts,
        q \in {Absent, Some("all"), Some("last_from_contact"), Some("last_from_me")}}

InitRecent == InitCommands(RecentWorlds)

NextRecent ==
    Commands({GibberishXyz} \X {JsonReply(d) : d \in RecentActions}, MaxRecent)

SpecRecent == InitRecent /\ [][NextRecent]_vars

-----------------------------------------------------------------------------
(* Ordinals: positional reads far enough from the end of a long window of  *)
(* incoming messages for every suffix rule to apply.                       *)

\* the longest window, the largest count and the largest position explored
MaxOrdinal == 23

OrdinalWindow(n) ==
    [k \in 1..n |-> [text |-> WindowTexts[((k - 1) % Len(WindowTexts)) + 1],
                     type |-> Incoming]]

OrdinalWorlds ==
    {<<[name |-> Alice, msgs |-> OrdinalWindow(n)]>> : n \in 0..MaxOrdinal}

OrdinalActions ==
    {ReadData(Some(alice), Some(MaxOrdinal), Some("position_from_contact"), Some(p)) :
        p \in 1..MaxOrdinal}

InitOrdinal == InitCommands(OrdinalWorlds)

NextOrdinal ==
    Commands({GibberishXyz} \X {JsonReply(d) : d \in OrdinalActions}, MaxOrdinal)

SpecOrdinal == InitOrdinal /\ [][NextOrdinal]_vars

-----------------------------------------------------------------------------
(* Literal commands: help, ?, quit, exit and stop in several spellings,    *)
(* between commands that the language model turns into actions.            *)

LiteralCommands ==
    {Help, <<"H", "E", "L", "P">>, <<"H", "e", "l", "p">>, Question,
     Quit, <<"Q", "U", "I", "T">>, Exit, <<"E", "x", "i", "t">>,
     Stop, <<"S", "T", "O", "P">>}

\* what the language model would answer, were it asked
LiteralReplies ==
    {JsonReply(d) : d \in {Only("auto_on"), Only("auto_off"), Only("list"),
                           SendData(bob, Some("ok"))}}

InitLiteral == InitCommands(CommandWorlds)

NextLiteral ==
    Commands((LiteralCommands \cup {GibberishXyz}) \X LiteralReplies, CommandKeep)

SpecLiteral == InitLiteral /\ [][NextLiteral]_vars

-----------------------------------------------------------------------------
(* Empty retrieval: reads and summaries of a chat that shows no message,   *)
(* or one, and of a contact that has no chat.                              *)

EmptyWorlds ==
    {<<[name |-> Alice, msgs |-> Window(types)]>> :
        types \in {<< >>, <<Incoming>>, <<Outgoing>>}}

EmptyActions ==
    ReadActions
    \cup {AboutData("summary", c) : c \in {alice, Zed}}
    \cup {ReadData(Some(Zed), Absent, q, Absent) :
             q \in {Absent, Some("last_from_contact")}}

InitEmpty == InitCommands(EmptyWorlds)

NextEmpty ==
    Commands({GibberishXyz} \X {JsonReply(d) : d \in EmptyActions}, MaxWindow)

SpecEmpty == InitEmpty /\ [][NextEmpty]_vars

-----------------------------------------------------------------------------
(* The command loops step by step: monitor_with_commands of               *)
(* WhatsAppAIControl and WhatsAppAIControlMCP, monitor_with_interaction   *)
(* of WhatsAppInteractiveClient.  pc.loop is the main coroutine's place:  *)
(* "check" at the loop condition, "keys" at the keyboard check (the       *)
(* queue read of the interactive client), "command" while the awaited     *)
(* process_command has not returned, "poll" at the chat monitoring (the   *)
(* relay check of WhatsAppAIControlMCP), "left" after the loop.  pc.input *)
(* is the interactive client's input thread.                              *)

\* keys the console holds unread, at most
MaxTyped == 1

EnterKey(line) == [key |-> "enter", line |-> line]
\* b'\x03' read by msvcrt.getch
CtrlCKey == [key |-> "ctrl_c", line |-> << >>]

At(place) == pc.loop = place
Goto(place) == pc' = [pc EXCEPT !.loop = place]

\* the operator types a line and Enter, or Ctrl-C, into the console
KeyTyped(item) ==
    /\ variant \in {"AIControl", "MCP"}
    /\ ~At("left")
    /\ Len(input_queue) < MaxTyped
    /\ input_queue' = Append(input_queue, item)
    /\ UNCHANGED <<pc, in_flight, appVars, relayVars>>

\* input_thread of monitor_with_interaction gets a line: it calls
\* asyncio.get_event_loop() in a thread that has no event loop, the
\* RuntimeError is answered by "Input error" and the thread ends; nothing is
\* put on command_queue
InputLine ==
    /\ variant = "Interactive"
    /\ pc.input = "reading"
    /\ pc' = [pc EXCEPT !.input = "ended"]
    /\ UNCHANGED <<input_queue, in_flight, appVars, relayVars>>

\* while self.running and self.authenticated, ignoring "self.running"
LoopCondition_ignoring_running ==
    /\ At("check")
    /\ Goto("keys")
    /\ UNCHANGED <<input_queue, in_flight, appVars, relayVars>>

\* while self.running and self.authenticated
LoopCondition ==
    /\ At("check")
    /\ Goto(IF running THEN "keys" ELSE "left")
    /\ UNCHANGED <<input_queue, in_flight, appVars, relayVars>>

\* msvcrt.kbhit() is false; command_queue.get() times out
NoInput ==
    /\ At("keys")
    /\ input_queue = << >>
    /\ Goto("poll")
    /\ UNCHANGED <<input_queue, in_flight, appVars, relayVars>>

\* Enter starts process_command as a task of its own
\* (asyncio.create_task) and the loop goes on
StartCommand_not_awaited ==
    /\ At("keys")
    /\ input_queue # << >>
    /\ input_queue[1].key = "enter"
    /\ in_flight' = Append(in_flight, input_queue[1].line)
    /\ input_queue' = Tail(input_queue)
    /\ Goto("poll")
    /\ UNCHANGED <<appVars, relayVars>>

\* Enter: response = await self.process_command(input_buffer), up to the
\* call
StartCommand ==
    /\ At("keys")
    /\ input_queue # << >>
    /\ input_queue[1].key = "enter"
    /\ in_flight' = Append(in_flight, input_queue[1].line)
    /\ input_queue' = Tail(input_queue)
    /\ Goto("command")
    /\ UNCHANGED <<appVars, relayVars>>

\* elif char == b'\x03': self.running = False; break
CtrlC ==
    /\ At("keys")
    /\ input_queue # << >>
    /\ input_queue[1].key = "ctrl_c"
    /\ input_queue' = Tail(input_queue)
    /\ running' = FALSE
    /\ result' = [op |-> "ctrl_c"]
    /\ Goto("left")
    /\ UNCHANGED <<in_flight, relayVars, variant, auto_reply, message_history,
                   contact_list, last_contact, use_mcp, last_messages, chats,
                   clock, sendCalls, modelCalls>>

\* the awaited process_command returns and its response is printed
CommandReturns(inputs, keep) ==
    /\ At("command")
    /\ Processing({in \in inputs : in[1] = in_flight[1]}, keep)
    /\ in_flight' = Tail(in_flight)
    /\ Goto("poll")
    /\ UNCHANGED input_queue

\* check_counter has not reached check_interval (WhatsAppAIControl); the
\* receiver task is not done or relay mode is off (WhatsAppAIControlMCP):
\* asyncio.sleep(0.01) and back to the loop condition
NothingDue ==
    /\ At("poll")
    /\ variant \in {"AIControl", "MCP"}
    /\ Goto("check")
    /\ UNCHANGED <<input_queue, in_flight, appVars, relayVars>>

\* the chats are polled (every check_interval passes in WhatsAppAIControl,
\* every pass in the interactive client); an exception is caught, the loop
\* sleeps and goes back to the loop condition
Poll(replies, sendResults, maxClock) ==
    /\ At("poll")
    /\ PollChats(replies, sendResults, maxClock)
    /\ Goto("check")
    /\ UNCHANGED <<input_queue, in_flight>>

\* WhatsAppAIControlMCP: the receiver task is found done
RelayCheck ==
    /\ At("poll")
    /\ MCPTaskDone
    /\ Goto("check")
    /\ UNCHANGED <<input_queue, in_flight>>

\* KeyboardInterrupt is raised in the main thread (SIGINT): it is no
\* Exception, so it leaves process_command and the loop and is caught by
\* run(), which quits the driver; the interactive client's run() also sets
\* running to false
KeyboardInterrupt ==
    /\ ~At("left")
    /\ Goto("left")
    /\ in_flight' = << >>
    /\ running' = IF variant = "Interactive" THEN FALSE ELSE running
    /\ result' = [op |-> "keyboard_interrupt", aborted |-> in_flight]
    /\ UNCHANGED <<input_queue, relayVars, variant, auto_reply, message_history,
                   contact_list, last_contact, use_mcp, last_messages, chats,
                   clock, sendCalls, modelCalls>>

LoopInputs ==
    {<<Quit, NoJsonReply>>, <<AutoOn, NoJsonReply>>,
     <<GibberishXyz, JsonReply(SendData(bob, Some("ok")))>>}

LoopKeys == {EnterKey(in[1]) : in \in LoopInputs} \cup {CtrlCKey}

LoopWorlds == {<<EmptyChat(BOB)>>}

\* run() up to the call of the loop
InitLoop ==
    /\ variant \in {"AIControl", "MCP", "Interactive"}
    /\ running = TRUE
    /\ auto_reply \in BOOLEAN
    /\ message_history = << >>
    /\ chats \in LoopWorlds
    /\ contact_list = IF variant = "MCP" THEN ChatNames(chats) ELSE << >>
    /\ last_contact = NoContact
    /\ use_mcp \in (IF variant = "MCP" THEN BOOLEAN ELSE {FALSE})
    /\ last_messages = << >>
    /\ clock = 0
    /\ sendCalls = << >>
    /\ modelCalls = << >>
    /\ result = [op |-> "none"]
    /\ pc = [loop |-> "check",
             input |-> IF variant = "Interactive" THEN "reading" ELSE "none"]
    /\ input_queue = << >>
    /\ in_flight = << >>
    /\ NoRequests
    /\ NoConnections

NextLoop ==
    \/ \E item \in LoopKeys : KeyTyped(item)
    \/ InputLine
    \/ LoopCondition
    \/ NoInput
    \/ StartCommand
    \/ CtrlC
    \/ CommandReturns(LoopInputs, MonitorKeep)
    \/ NothingDue
    \/ Poll(LiveReplies, BOOLEAN, LiveClock)
    \/ RelayCheck
    \/ KeyboardInterrupt
    \/ \E i \in 1..Len(chats) :
           /\ ~At("left")
           /\ WorldMessage(i, "hi", Incoming, MonitorKeep)

SpecLoop == InitLoop /\ [][NextLoop]_vars

-----------------------------------------------------------------------------
(* The relay client: MCPClient.send_request_and_wait and the receiver.     *)
(* A call is known by the request id it generated (uuid4: never an id      *)
(* generated before).  calls[id] is the call's coroutine: waiting on its   *)
(* future or returned, with the future's state and the value returned     *)
(* (<< >> for None).                                                       *)

\* the calls explored
MaxRequests == 2

RequestIds == 1..MaxRequests

\* a request id no call generated
ForeignId == 0

Pending == [done |-> "no", result |-> << >>]
Cancelled == [done |-> "cancelled", result |-> << >>]
Done(message) == [done |-> "result", result |-> <<message>>]

ServerMessage(type, request_id, response_type) ==
    [type |-> type, request_id |-> request_id, response_type |-> response_type]

\* what the server may send: responses and errors that echo the id of a
\* request, carry another id, or carry none
ServerMessages ==
    {ServerMessage("response", rid, rt) :
        rid \in {Absent} \cup {Some(i) : i \in RequestIds \cup {ForeignId}},
        rt \in {"whatsapp_command_result", "contacts"}}
    \cup {ServerMessage("error", rid, "none") :
             rid \in {Absent} \cup {Some(i) : i \in RequestIds \cup {ForeignId}}}

\* handle_response completing the oldest waiting call whatever the id of
\* the response
handle_response_any_pending(message, futures, cs) ==
    LET waiting == {i \in futures : cs[i].future.done = "no"}
        first == CHOOSE i \in waiting : \A j \in waiting : i <= j
    IN  IF waiting # { }
        THEN [futures |-> futures \ {first},
              calls |-> [cs EXCEPT ![first].future = Done(message)]]
        ELSE [futures |-> futures, calls |-> cs]

\* MCPClient.handle_response
handle_response(message, futures, cs) ==
    LET request_id == Get(message.request_id, "None")
    IN  IF message.request_id # Absent /\ request_id \in futures
        THEN [futures |-> futures \ {request_id},
              calls |-> IF cs[request_id].future.done = "no"
                        THEN [cs EXCEPT ![request_id].future = Done(message)]
                        ELSE cs]
        ELSE [futures |-> futures, calls |-> cs]

\* WhatsAppMCPClient.handle_response
whatsapp_handle_response(message, futures, cs) ==
    IF message.response_type \in {"contacts", "messages"}
    THEN [futures |-> futures, calls |-> cs]
    ELSE handle_response(message, futures, cs)

\* MCPClient.handle_message with no registered handler
handle_message(message, futures, cs) ==
    IF message.type = "response"
    THEN whatsapp_handle_response(message, futures, cs)
    ELSE [futures |-> futures, calls |-> cs]

\* send_request_and_wait up to "await asyncio.wait_for(future, ...)", or to
\* "return None" when send_message fails
SendRequestAndWait(request_id, sendOk) ==
    /\ request_id \notin DOMAIN calls
    /\ calls' = WithKey(calls, request_id,
                        [state |-> IF sendOk THEN "waiting" ELSE "returned",
                         future |-> Pending, value |-> << >>])
    /\ response_futures' = IF sendOk THEN response_futures \cup {request_id}
                           ELSE response_futures
    /\ UNCHANGED <<wire, appVars, loopVars, serverVars>>

\* the server (or whoever holds the connection) sends a message
ServerSends(message) ==
    /\ wire = << >>
    /\ wire' = <<message>>
    /\ UNCHANGED <<response_futures, calls, appVars, loopVars, serverVars>>

\* receive_messages: recv, json.loads, handle_message
ReceiveMessage ==
    /\ wire # << >>
    /\ \E after \in {handle_message(wire[1], response_futures, calls)} :
         /\ response_futures' = after.futures
         /\ calls' = after.calls
    /\ wire' = << >>
    /\ UNCHANGED <<appVars, loopVars, serverVars>>

\* the timeout of wait_for passes: the future is cancelled
TimerFires(request_id) ==
    /\ request_id \in DOMAIN calls
    /\ calls[request_id].state = "waiting"
    /\ calls[request_id].future.done = "no"
    /\ calls' = [calls EXCEPT ![request_id].future = Cancelled]
    /\ UNCHANGED <<response_futures, wire, appVars, loopVars, serverVars>>

\* send_request_and_wait whose handler of asyncio.TimeoutError returns None
\* without deleting the entry of the request
CallReturns_keeping_entry(request_id) ==
    /\ request_id \in DOMAIN calls
    /\ calls[request_id].state = "waiting"
    /\ calls[request_id].future.done # "no"
    /\ calls' = [calls EXCEPT ![request_id].state = "returned",
                              ![request_id].value = calls[request_id].future.result]
    /\ UNCHANGED <<response_futures, wire, appVars, loopVars, serverVars>>

\* the waiting coroutine runs again: "return response", or the handler of
\* asyncio.TimeoutError
CallReturns(request_id) ==
    /\ request_id \in DOMAIN calls
    /\ calls[request_id].state = "waiting"
    /\ calls[request_id].future.done # "no"
    /\ calls' = [calls EXCEPT ![request_id].state = "returned",
                              ![request_id].value = calls[request_id].future.result]
    /\ response_futures' = IF calls[request_id].future.done = "cancelled"
                           THEN response_futures \ {request_id}
                           ELSE response_futures
    /\ UNCHANGED <<wire, appVars, loopVars, serverVars>>

InitRelay == Constructed("MCP")

NextRelay ==
    \/ \E request_id \in RequestIds : \E sendOk \in BOOLEAN :
           SendRequestAndWait(request_id, sendOk)
    \/ \E message \in ServerMessages : ServerSends(message)
    \/ ReceiveMessage
    \/ \E request_id \in RequestIds : TimerFires(request_id)
    \/ \E request_id \in RequestIds : CallReturns(request_id)

SpecRelay == InitRelay /\ [][NextRelay]_vars

-----------------------------------------------------------------------------
(* The relay server: MCPServer.handle_client and its tables of clients.    *)

\* websockets the server accepts in one run
MaxConnections == 3
\* readings of datetime.utcnow().timestamp() the accepts can get
MaxStamp == 2

WebSockets == 1..MaxConnections
Stamps == 1..MaxStamp

\* handle_client: client_id = f"client_{datetime.utcnow().timestamp()}"
ClientId(stamp) == <<"client_", stamp>>

\* register_client: the session a new client gets
NewSession == [user_id |-> Absent, conversation_id |-> Absent, context |-> << >>]

\* table[key] = value of a dict
SetItem(table, key, value) ==
    [k \in DOMAIN table \cup {key} |-> IF k = key THEN value ELSE table[k]]

\* del table[key]
DelItem(table, key) == [k \in DOMAIN table \ {key} |-> table[k]]

\* the message types handle_message is given here: one handler that writes
\* the session, one that reads it, one that does not use it
MessageTypes == {"initialize", "send_message", "ping"}

\* the handlers of handle_message for these types, up to their first use of
\* user_sessions[client_id]: the reply they send and the session they leave
Handler(type, client_id) ==
    CASE type = "ping" ->
           [reply |-> "pong", sessions |-> user_sessions]
      [] client_id \notin DOMAIN user_sessions ->
           \* KeyError, caught by handle_message and answered with an error
           [reply |-> "error: KeyError", sessions |-> user_sessions]
      [] type = "initialize" ->
           [reply |-> "initialized",
            sessions |-> SetItem(user_sessions, client_id,
                           [user_sessions[client_id] EXCEPT
                               !.user_id = Some("user")])]
      [] type = "send_message" ->
           [reply |-> IF user_sessions[client_id].user_id = Absent
                        THEN "error: User not initialized"
                        ELSE "message",
            sessions |-> user_sessions]

\* the client-side state, which the server does not touch
clientState == <<variant, running, auto_reply, message_history, contact_list,
                 last_contact, use_mcp, last_messages, chats, clock,
                 sendCalls, modelCalls, loopVars, response_futures, calls,
                 wire>>

\* handle_client up to the await inside register_client: the websockets
\* are numbered in the order the server accepts them
Accept(websocket, stamp) ==
    /\ websocket = Cardinality(DOMAIN connections) + 1
    /\ websocket \in WebSockets
    /\ clients' = SetItem(clients, ClientId(stamp), websocket)
    /\ user_sessions' = SetItem(user_sessions, ClientId(stamp), NewSession)
    /\ connections' = SetItem(connections, websocket,
                         [pc |-> "confirming", client_id |-> ClientId(stamp)])
    /\ UNCHANGED <<clientState, result>>

\* register_client's send_message returns: handle_client enters its try
ConfirmationSent(websocket) ==
    /\ websocket \in DOMAIN connections
    /\ connections[websocket].pc = "confirming"
    /\ connections' = [connections EXCEPT ![websocket].pc = "open"]
    /\ UNCHANGED <<clientState, result, clients, user_sessions>>

\* register_client's send_message raises (the peer is gone): the exception
\* leaves handle_client before its try, so its finally does not run
ConfirmationFails(websocket) ==
    /\ websocket \in DOMAIN connections
    /\ connections[websocket].pc = "confirming"
    /\ connections' = [connections EXCEPT ![websocket].pc = "failed"]
    /\ UNCHANGED <<clientState, result, clients, user_sessions>>

\* one iteration of "async for message in websocket": handle_message
HandleMessage(websocket, type) ==
    /\ websocket \in DOMAIN connections
    /\ connections[websocket].pc = "open"
    /\ LET client_id == connections[websocket].client_id
           handled == Handler(type, client_id)
       IN /\ user_sessions' = handled.sessions
          /\ result' = [op |-> "handle_message", websocket |-> websocket,
                        client_id |-> client_id, type |-> type,
                        session |-> client_id \in DOMAIN user_sessions,
                        reply |-> handled.reply]
    /\ UNCHANGED <<clientState, clients, connections>>

\* unregister_client
unregister_client(client_id) ==
    IF client_id \in DOMAIN clients
      THEN /\ clients' = DelItem(clients, client_id)
           /\ user_sessions' = DelItem(user_sessions, client_id)
      ELSE UNCHANGED <<clients, user_sessions>>

\* the connection closes: the loop ends and the finally unregisters
ConnectionClosed(websocket) ==
    /\ websocket \in DOMAIN connections
    /\ connections[websocket].pc = "open"
    /\ unregister_client(connections[websocket].client_id)
    /\ connections' = [connections EXCEPT ![websocket].pc = "done"]
    /\ UNCHANGED <<clientState, result>>

InitServer == Constructed("MCP")

NextServer ==
    \/ \E websocket \in WebSockets : \E stamp \in Stamps :
           Accept(websocket, stamp)
    \/ \E websocket \in WebSockets : ConfirmationSent(websocket)
    \/ \E websocket \in WebSockets : ConfirmationFails(websocket)
    \/ \E websocket \in WebSockets : \E type \in MessageTypes :
           HandleMessage(websocket, type)
    \/ \E websocket \in WebSockets : ConnectionClosed(websocket)

SpecServer == InitServer /\ [][NextServer]_vars

-----------------------------------------------------------------------------
(* Claims about the relay server *)

\* the handler of the connection has ended
Ended(websocket) == connections[websocket].pc \in {"done", "failed"}

\* the connection is registered and its handler has not ended
Connected(websocket) ==
    /\ websocket \in DOMAIN connections
    /\ ~Ended(websocket)

\* two connections the server accepted under one client_id
Collision ==
    \E a, b \in DOMAIN connections :
        a # b /\ connections[a].client_id = connections[b].client_id

\* C31: clients and user_sessions always have the same keys, and whenever
\* handle_message runs for a connection that is still open, the
\* user_sessions entry of its client_id exists; also when two connections
\* got the same client_id.
C31_SessionOfConnectedClient ==
    /\ DOMAIN clients = DOMAIN user_sessions
    /\ result.op = "handle_message" => result.session

\* C31, the half that holds: the two tables have the same keys
C31_SameKeys == DOMAIN clients = DOMAIN user_sessions

\* C31, without a shared client_id: the session of a handled message exists
C31_SessionUnlessCollision ==
    (result.op = "handle_message" /\ ~Collision) => result.session

\* C32: once the handler of a connection has ended, also by a failed
\* connection confirmation, clients does not hold its websocket any more,
\* and user_sessions holds its client_id only for another connection that
\* is still connected under that client_id.
C32_EntriesRemovedAtEnd ==
    \A websocket \in DOMAIN connections :
        Ended(websocket) =>
            LET client_id == connections[websocket].client_id
            IN /\ ~(client_id \in DOMAIN clients
                      /\ clients[client_id] = websocket)
               /\ client_id \in DOMAIN user_sessions =>
                      \E other \in DOMAIN connections :
                          /\ Connected(other)
                          /\ connections[other].client_id = client_id

\* C32, for the connections whose confirmation was sent
C32_RemovedUnlessConfirmationFailed ==
    (\A websocket \in DOMAIN connections :
         connections[websocket].pc # "failed") => C32_EntriesRemovedAtEnd

-----------------------------------------------------------------------------
(* Properties of contact resolution, checked under SpecResolve *)

Resolved == result.op \in {"find_best_contact_match", "server_match_contact"}

Known == {contact_list[i] : i \in 1..Len(contact_list)}
\* the known contacts equal to the candidate, case-insensitively
ExactSet(name) == {c \in Known : Lower(c) = Lower(name)}
\* the known contacts whose similarity to the candidate reaches the cutoff
FuzzySet(name) == {c \in Known : AtLeastCutoff(ratio(c, name))}
\* the known contacts that contain the candidate or are contained in it
SubstringSet(name) ==
    {c \in Known : \/ Contains(Lower(name), Lower(c))
                   \/ Contains(Lower(c), Lower(name))}

\* C4: when the candidate equals a known contact's display name
\* case-insensitively, the resolvers (client and relay server) return such a
\* contact, whatever the fuzzy rule would have chosen.
C4_ExactShortCircuits ==
    (Resolved /\ ExactSet(result.name) # {})
        => result.out \in ExactSet(result.name)

\* C4 witness: an exact match was returned although the fuzzy rule picks a
\* different contact (bob against BOB, bobs).
C4_Witness ==
    /\ result.op = "find_best_contact_match"
    /\ ExactSet(result.name) # {}
    /\ get_close_matches(result.name, contact_list) # <<>>
    /\ get_close_matches(result.name, contact_list)[1] # result.out
    /\ result.out \in ExactSet(result.name)

\* C5: a candidate shorter than 3 characters that neither the exact nor the
\* fuzzy rule resolves is returned unchanged (the substring rule is not
\* applied to it).
C5_ShortNameNotBySubstring ==
    (/\ result.op = "find_best_contact_match"
     /\ Len(result.name) < 3
     /\ ExactSet(result.name) = {}
     /\ FuzzySet(result.name) = {})
        => result.out = result.name

\* C6: the rules decide in the order exact, fuzzy (cutoff 0.6, best score),
\* substring; with no match, or no known contact, the candidate is returned
\* unchanged.
C6_RuleOrder ==
    result.op = "find_best_contact_match" =>
        LET name == result.name
            out == result.out
        IN  IF ExactSet(name) # {} THEN out \in ExactSet(name)
            ELSE IF FuzzySet(name) # {}
                 THEN /\ out \in FuzzySet(name)
                      /\ \A c \in FuzzySet(name) :
                            ratio(c, name)[1] * ratio(out, name)[2]
                                <= ratio(out, name)[1] * ratio(c, name)[2]
            ELSE IF SubstringSet(name) # {} THEN out \in SubstringSet(name)
            ELSE out = name

\* C6 witness: the fuzzy rule decided although the substring rule matches an
\* earlier, different contact (Ann against Annabelle, Anne).
C6_Witness ==
    /\ result.op = "find_best_contact_match"
    /\ ExactSet(result.name) = {}
    /\ FuzzySet(result.name) # {}
    /\ result.out \in FuzzySet(result.name)
    /\ \E c \in SubstringSet(result.name) : c # result.out /\ c \notin FuzzySet(result.name)


-----------------------------------------------------------------------------
(* Properties of the monitor loops, checked under SpecMonitor and          *)
(* SpecHistory                                                             *)

\* C1: every send_message call of a monitor loop is made with auto_reply
\* true and with an incoming message as the chat's last message; the loop
\* does not answer a message the account itself sent.
C1_AutoReplyOnlyToIncoming ==
    \A k \in 1..Len(sendCalls) :
        sendCalls[k].by = "monitor"
            => (sendCalls[k].auto /\ sendCalls[k].lastType = Incoming)

\* C16: an iteration in which generate_response raised leaves running
\* true, and another iteration follows it (as long as the history appends
\* explored allow one).
C16_MonitorSurvivesFailure ==
    /\ [](result.op = "monitor" /\ result.raised => running)
    /\ (result.op = "monitor" /\ result.raised /\ ~result.retry
            /\ clock + 2 <= LiveClock)
          ~> (result.op = "monitor" /\ result.retry)

\* C16 witness: the iteration after one that raised has run to its end.
C16_Witness ==
    /\ result.op = "monitor"
    /\ result.retry
    /\ ~result.raised
    /\ running

\* the snippet chat i shows is the newest entry the monitor recorded for it
\* (in WhatsAppInteractiveClient: as a message of the contact)
Recorded(i) ==
    LET name == chats[i].name
        entries == IF name \in DOMAIN message_history
                   THEN message_history[name] ELSE << >>
    IN  /\ entries # << >>
        /\ entries[Len(entries)].message = Snippet(chats[i])
        /\ variant = "Interactive" => entries[Len(entries)].direction = Incoming

\* a step of the loop that polls the chats
MonitorStep ==
    /\ result'.op = "monitor"
    /\ <<result, last_messages, message_history, clock, sendCalls, modelCalls>>' #
           <<result, last_messages, message_history, clock, sendCalls, modelCalls>>

\* C25: a change of a chat's snippet is recorded and answered once: a poll
\* that finds the snippet already recorded for the chat appends nothing to
\* the chat's history and calls neither generate_response nor send_message
\* for it, also after an iteration in which generate_response raised.
C25_ChangeHandledOnce ==
    [][MonitorStep =>
          \A i \in 1..Len(chats) :
              Recorded(i) =>
                  /\ message_history'[chats[i].name] = message_history[chats[i].name]
                  /\ \A k \in 1..Len(modelCalls') : modelCalls'[k] # chats[i].name
                  /\ \A k \in 1..Len(sendCalls') : sendCalls'[k].chat # chats[i].name]_vars

\* the history entries of a chat, none when the chat was never polled
Entries(history, name) ==
    IF name \in DOMAIN history THEN history[name] ELSE << >>

\* the step raises a new-message event for chat i: it appends to its history
NewMessageEvent(i) ==
    Entries(message_history', chats[i].name) # Entries(message_history, chats[i].name)

\* the snippets the previous poll saw for the name of chat i
SeenBefore(i) ==
    IF result.op = "monitor"
    THEN {result.seen[k].last_message :
             k \in {j \in 1..Len(result.seen) : result.seen[j].name = chats[i].name}}
    ELSE { }

\* C26: a poll raises a new-message event for a chat exactly when its
\* non-empty snippet differs from the one the previous poll observed; the
\* first observation of a chat records the baseline without an event, an
\* unchanged snippet raises none, an empty snippet raises none.
C26_EventOnSnippetChange ==
    [][MonitorStep =>
          \A i \in 1..Len(chats) :
              /\ Snippet(chats[i]) = "" => ~NewMessageEvent(i)
              /\ chats[i].name \notin DOMAIN last_messages
                    => /\ ~NewMessageEvent(i)
                       /\ Snippet(chats[i]) # ""
                             => /\ chats[i].name \in DOMAIN last_messages'
                                /\ last_messages'[chats[i].name] = Snippet(chats[i])
              /\ SeenBefore(i) = {Snippet(chats[i])} => ~NewMessageEvent(i)
              /\ (/\ Len(chats) = 1
                  /\ Snippet(chats[i]) # ""
                  /\ SeenBefore(i) # { }
                  /\ "" \notin SeenBefore(i)
                  /\ Snippet(chats[i]) \notin SeenBefore(i))
                    => NewMessageEvent(i)]_vars

\* C9: no chat's message_history holds more than 50 entries.
C9_HistoryAtMostCap ==
    \A c \in DOMAIN message_history : Len(message_history[c]) <= HistoryCap


-----------------------------------------------------------------------------
(* Properties of command processing, checked under Spec and SpecRead *)

IsCommand == result.op = "process_command"

\* the command was handled without an answer of the relay
Standalone == ~result.relay.up

\* the reply whose content decided the command: the relay's when the relay
\* answers, the local one otherwise
DecidingReply == IF result.relay.up THEN result.relay.reply ELSE result.reply

\* the parsed action dict as <<d>>, << >> when no dict was parsed
Parsed ==
    IF DecidingReply.braces /\ ~DecidingReply.raises THEN DecidingReply.json
    ELSE << >>

ParsedAction == IF Parsed = << >> \/ Parsed[1].action = << >> THEN "" ELSE Parsed[1].action[1]

Asked(action) == IsCommand /\ ParsedAction = action

\* C2: a command makes one send_message call when the parsed action is a
\* send, whatever the call returns, and no call for any other action or
\* when no action is executed.
C2_AtMostOneSend ==
    IsCommand =>
        IF ParsedAction = "send"
        THEN Len(sendCalls) = 1 /\ sendCalls[1].ok = result.sent
        ELSE sendCalls = << >>

\* C2 witness: a send whose send_message call returned false was not retried.
C2_Witness ==
    /\ Asked("send")
    /\ ~result.sent
    /\ Len(sendCalls) = 1
    /\ result.out.kind = "send_failed"

\* C3: in WhatsAppAIControlMCP standalone, a send whose send_message call
\* returns false yields "Failed to send to {contact}" for the contact that
\* resolution gives, and leaves last_contact as it was or at a known
\* contact.
C3_FailedSendKeepsLastContact ==
    [][(/\ Asked("send")'
        /\ variant = "MCP"
        /\ Standalone'
        /\ ~result'.sent)
          => /\ result'.out.kind = "send_failed"
             /\ result'.out.contact =
                    find_best_contact_match(
                        IF Parsed'[1].contact = << >> THEN << >> ELSE Parsed'[1].contact[1],
                        contact_list)
             /\ \/ last_contact' = last_contact
                \/ \E k \in 1..Len(contact_list) : last_contact' = <<contact_list[k]>>]_vars

\* the words handle_direct_command looks for, in the command as typed
Says(word) == Contains(word, Lower(result.command))

HeuristicKinds ==
    IF Says(<<"l","i","s","t">>) \/ Says(<<"c","o","n","t","a","c","t","s">>)
    THEN {"list", "no_chats"}
    ELSE IF Says(<<"a","u","t","o">>) /\ Says(<<"o","n">>) THEN {"auto_on"}
    ELSE IF Says(<<"a","u","t","o">>) /\ Says(<<"o","f","f">>) THEN {"auto_off"}
    ELSE IF Says(<<"s","t","a","t","u","s">>) THEN {"status"}
    ELSE {"not_understood", "can_help_with", "error_action"}

\* C10: when the language model's reply holds no brace-delimited object,
\* the command's keywords decide, in the order list/contacts, auto and on,
\* auto and off, status; any other command is answered as not understood.
C10_KeywordFallback ==
    (/\ IsCommand
     /\ Standalone
     /\ ~result.reply.braces
     /\ ~result.reply.raises
     /\ result.out.kind \notin {"help", "stopping", "system_status"})
        => /\ result.out.kind \in HeuristicKinds
           /\ result.out.kind = "auto_on" => auto_reply
           /\ result.out.kind = "auto_off" => ~auto_reply

\* C11: when the reply holds a brace-delimited substring that json.loads
\* rejects, the command is answered as a reply without braces is: by the
\* keyword pass, and never by an error text.
C11_BadJsonFallsBack ==
    (/\ IsCommand
     /\ Standalone
     /\ result.reply.braces
     /\ ~result.reply.raises
     /\ result.reply.json = << >>)
        => /\ result.out.kind # "error"
           /\ result.out.kind \in HeuristicKinds

\* the command was handed to process_command_mcp or process_command_direct
Dispatched ==
    /\ IsCommand
    /\ variant = "MCP"
    /\ result.out.kind \notin {"help", "stopping", "system_status"}

\* a step in which a command is processed
CommandStep == IsCommand' /\ result' # result

\* C12: a command whose relay request gets no response makes that one
\* request, leaves relay mode, and is parsed by the client's own language
\* model; a command entered outside relay mode makes no request and does not
\* return to relay mode.
C12_TimeoutDowngradesOnce ==
    [][CommandStep =>
          /\ (use_mcp /\ Dispatched' /\ ~result'.relay.up)
                => /\ ~use_mcp'
                   /\ Len(result'.requests) = 1
                   /\ result'.requests[1].command = result'.command
                   /\ modelCalls' # << >>
                   /\ modelCalls'[1].for = "parse"
                   /\ modelCalls'[1].prompt = result'.command
          /\ ~use_mcp => (result'.requests = << >> /\ ~use_mcp')]_vars

\* C12 witness: a send whose relay request was not answered was executed by
\* the direct path after one request, and relay mode is off.
C12_Witness ==
    /\ Dispatched
    /\ ~result.relay.up
    /\ Len(result.requests) = 1
    /\ ~use_mcp
    /\ Asked("send")
    /\ result.out.kind = "sent"
    /\ Len(modelCalls) = 1

\* C13: use_mcp changes only from true to false, and with use_mcp false no
\* command is handed to the relay.
C13_DowngradeIsPermanent ==
    [][/\ use_mcp' => use_mcp
       /\ (CommandStep /\ ~use_mcp) => result'.requests = << >>]_vars

\* C13 witness: the receiver task was found done, relay mode is off.
C13_Witness ==
    /\ result.op = "connection_lost"
    /\ ~use_mcp
    /\ running

\* C15: process_command returns a result for every command, whatever the
\* language model, the page or the relay do: no exception leaves it, and
\* running is false only after a quit, exit, stop (q, bye) command.
C15_AlwaysAResult ==
    /\ IsCommand => result.out.kind # "exception"
    /\ ~running => /\ IsCommand
                   /\ result.out.kind = "stopping"
                   /\ Lower(result.command) \in {Quit, Exit, Stop, Q, Bye}

\* C15 witness: an exception of a collaborator (generate_response raised
\* while summarising) was answered with an error text, and running holds.
C15_Witness ==
    /\ Asked("summary")
    /\ result.gen = Raise
    /\ result.out.kind = "error"
    /\ result.out.what = "generate_response"
    /\ running

\* C19: in WhatsAppAIControlMCP, after a send, read, summary or suggest
\* whose contact name resolves to a known contact, last_contact is that
\* contact; on the standalone path and when the relay answered.
C19_LastContactFollowsResolution ==
    (/\ IsCommand
     /\ variant = "MCP"
     /\ ParsedAction \in {"send", "read", "summary", "suggest"})
        => LET name == IF Parsed[1].contact = << >> THEN << >>
                       ELSE Parsed[1].contact[1]
               resolved == IF result.relay.up
                           THEN server_match_contact(name, First20(contact_list))
                           ELSE find_best_contact_match(name, contact_list)
           IN  (\E k \in 1..Len(contact_list) : contact_list[k] = resolved)
                  => last_contact = <<resolved>>

\* C20: after a list action the contacts kept are the names of the chats
\* get_chats returns, and the text shows the first 15 of them numbered from
\* 1; on the standalone path and when the relay answered.
C20_ListReplacesContacts ==
    Asked("list")
        => /\ result.out.kind = "list"
           /\ result.out.shown = Numbered(ChatNames(chats))
           /\ variant = "MCP" => contact_list = ChatNames(chats)

\* the generate_response calls a command made for its suggestions
SuggestCalls ==
    LET IsSuggest(call) == call.for = "suggest"
    IN  SelectSeq(modelCalls, IsSuggest)

\* the texts of the incoming messages the page shows in any chat
IncomingTexts ==
    LET shown == UNION {{chats[i].msgs[k] : k \in 1..Len(chats[i].msgs)} :
                           i \in 1..Len(chats)}
    IN  {m.text : m \in {x \in shown : x.type = Incoming}}

\* C21: a suggest action makes exactly one generate_response call for
\* suggestions, whose context is the last up-to-3 incoming texts fetched or
\* the placeholder "No messages"; in every executor.
C21_SuggestAlwaysAsksModel ==
    Asked("suggest")
        => /\ Len(SuggestCalls) = 1
           /\ \/ SuggestCalls[1].prompt = <<"No messages">>
              \/ /\ Len(SuggestCalls[1].prompt) \in 1..3
                 /\ \A k \in 1..Len(SuggestCalls[1].prompt) :
                        SuggestCalls[1].prompt[k] \in IncomingTexts

\* the contact name of the parsed action, "" when it has none
AskedContact == IF Parsed[1].contact = << >> THEN Empty ELSE Parsed[1].contact[1]

\* the messages the executor of the command fetches with a limit of count:
\* WhatsAppAIControl by the name as parsed, WhatsAppAIControlMCP by the name
\* the server or find_best_contact_match resolved
Fetched(count) ==
    IF variant = "AIControl" THEN get_chat_messages(chats, AskedContact, count)
    ELSE IF result.relay.up
    THEN get_chat_messages_mcp(
             chats, server_match_contact(AskedContact, First20(contact_list)), count)
    ELSE get_chat_messages_mcp(
             chats, find_best_contact_match(AskedContact, contact_list), count)

\* the generate_response calls a command made for its summary
SummaryCalls ==
    LET IsSummary(call) == call.for = "summary"
    IN  SelectSeq(modelCalls, IsSummary)

\* C22: a summary action on a non-empty window of at most 20 messages makes
\* one generate_response call whose prompt has one "sender: text" line per
\* fetched message in order, and returns the model's text as a summary; in
\* every executor.
C22_SummaryOfNonEmptyWindow ==
    (/\ Asked("summary")
     /\ result.gen # Raise
     /\ Fetched(20) # << >>)
        => /\ Len(SummaryCalls) = 1
           /\ SummaryCalls[1].prompt =
                  [k \in 1..Len(Fetched(20)) |->
                      [sender |-> Fetched(20)[k].sender, text |-> Fetched(20)[k].text]]
           /\ result.out.kind = "summary"
           /\ result.out.text = result.gen

\* C24: in WhatsAppAIControlMCP standalone, a send whose contact is missing
\* or empty makes no send_message call to a known contact: the empty name
\* resolves to no entry of the contact list.
C24_EmptyNameReachesNoContact ==
    (/\ Asked("send")
     /\ variant = "MCP"
     /\ Standalone
     /\ AskedContact = Empty)
        => \A k \in 1..Len(sendCalls) : sendCalls[k].chat \notin Known

\* the messages get_chat_messages fetched for the read: the last "count"
\* (10 by default) of the chat
FetchedWindow ==
    LET msgs == chats[1].msgs
        count == IF Parsed[1].count = << >> THEN 10 ELSE Parsed[1].count[1]
    IN  SubSeq(msgs, IF Len(msgs) > count THEN Len(msgs) - count + 1 ELSE 1, Len(msgs))

IncomingOnly ==
    LET IsIncoming(m) == m.type = "incoming"
    IN  SelectSeq(FetchedWindow, IsIncoming)

PositionAsked ==
    /\ Asked("read")
    /\ Parsed[1].query_type = <<"position_from_contact">>

AskedPosition == IF Parsed[1].position = << >> THEN 1 ELSE Parsed[1].position[1]

\* C23: a positional read whose position is 0 or negative selects no
\* message: position >= 1 holds whenever incoming messages are indexed.
C23_PositionAtLeastOne ==
    (/\ PositionAsked
     /\ variant = "AIControl"
     /\ AskedPosition < 1)
        => result.out.kind \notin {"position_message", "error"}

\* the text of the last message of the type in the fetched window, if any
LastOfType(type) ==
    LET at == {k \in 1..Len(FetchedWindow) : FetchedWindow[k].type = type}
    IN  IF at = {} THEN Absent ELSE Some(FetchedWindow[Max(at)].text)

\* a read of WhatsAppAIControl with this query_type
ReadAsked(query_type) ==
    /\ Asked("read")
    /\ variant = "AIControl"
    /\ Parsed[1].query_type = Some(query_type)

\* C33: a last_from_contact read returns the last incoming message of the
\* fetched window and a last_from_me read the last outgoing one; each gives
\* a not-found result exactly when the window has no message of its
\* direction, whatever the messages of the other direction are.
C33_LastOfDirection ==
    /\ ReadAsked("last_from_contact") =>
           IF LastOfType(Incoming) # Absent
             THEN /\ result.out.kind = "last_from_contact"
                  /\ Some(result.out.text) = LastOfType(Incoming)
             ELSE result.out.kind \in {"none_from_contact", "no_messages"}
    /\ ReadAsked("last_from_me") =>
           IF LastOfType(Outgoing) # Absent
             THEN /\ result.out.kind = "last_from_me"
                  /\ Some(result.out.text) = LastOfType(Outgoing)
             ELSE result.out.kind \in {"none_from_me", "no_messages"}

\* C33 witness: window hi(in), yo(out), sup(in), bye(out); the last message
\* from the contact is sup although a later outgoing message follows it.
C33_Witness ==
    /\ ReadAsked("last_from_contact")
    /\ chats[1].msgs = Window(<<Incoming, Outgoing, Incoming, Outgoing>>)
    /\ Parsed[1].count = Absent
    /\ result.out.kind = "last_from_contact"
    /\ result.out.text = "sup"

\* a read of the whole conversation, by WhatsAppAIControl or after the
\* relay's answer
RecentAsked ==
    /\ Asked("read")
    /\ variant = "AIControl" \/ result.relay.up
    /\ Parsed[1].query_type \in {Absent, Some("all")}

\* the messages of the chat such a read fetches, n of them: the relay's
\* answer carries no count, so the client fetches 10
RecentFetched ==
    LET msgs == chats[1].msgs
        count == IF result.relay.up THEN 10 ELSE Get(Parsed[1].count, 10)
        n == IF Len(msgs) > count THEN count ELSE Len(msgs)
    IN  [k \in 1..n |-> msgs[Len(msgs) - n + k]]

\* C34: a read with query type all shows the trailing min(5, n) of the n
\* fetched messages, oldest first, of both directions, each with its
\* direction.
C34_RecentShowsLastFive ==
    (RecentAsked /\ RecentFetched # << >>) =>
        LET n == Len(RecentFetched)
            m == IF n < 5 THEN n ELSE 5
        IN  /\ result.out.kind = "recent"
            /\ Len(result.out.lines) = m
            /\ \A k \in 1..m :
                   /\ result.out.lines[k].text = RecentFetched[n - m + k].text
                   /\ result.out.lines[k].type = RecentFetched[n - m + k].type

\* C34 witness: of the six messages hi(in), yo(out), sup(in), bye(out),
\* one(in), two(out) the five from yo to two are shown.
C34_Witness ==
    /\ RecentAsked
    /\ Len(chats[1].msgs) = 6
    /\ Parsed[1].count = Absent
    /\ Len(result.out.lines) = 5
    /\ result.out.lines[1] = [type |-> Outgoing, text |-> "yo"]
    /\ result.out.lines[4] = [type |-> Incoming, text |-> "one"]
    /\ result.out.lines[5] = [type |-> Outgoing, text |-> "two"]

\* the suffix the claim gives the number n
SuffixOf(n) ==
    IF n % 100 \in 11..20 THEN "th"
    ELSE CASE n % 10 = 1 -> "st"
           [] n % 10 = 2 -> "nd"
           [] n % 10 = 3 -> "rd"
           [] OTHER -> "th"

\* a positional read of WhatsAppAIControl that found its message
PositionShown ==
    /\ PositionAsked
    /\ variant = "AIControl"
    /\ result.out.kind = "position_message"

\* C35: the ordinal text of a positional read is "last" for position 1 and
\* n, its suffix and "last" for n > 1: the suffix is st, nd, rd for n ending
\* in 1, 2, 3 and th otherwise, and th whenever n mod 100 is in 11..20; so
\* 2nd, 3rd, 11th, 12th, 21st.  The heading shown is that text capitalized.
C35_OrdinalText ==
    PositionShown =>
        LET n == AskedPosition
            text == IF n = 1 THEN <<"last">>
                    ELSE <<[n |-> n, suffix |-> SuffixOf(n)], "last">>
        IN  /\ result.out.position_text = text
            /\ n = 2 => text = <<[n |-> 2, suffix |-> "nd"], "last">>
            /\ n = 3 => text = <<[n |-> 3, suffix |-> "rd"], "last">>
            /\ n = 11 => text = <<[n |-> 11, suffix |-> "th"], "last">>
            /\ n = 12 => text = <<[n |-> 12, suffix |-> "th"], "last">>
            /\ n = 21 => text = <<[n |-> 21, suffix |-> "st"], "last">>
            /\ result.out.heading = (IF n = 1 THEN <<"Last">> ELSE text)

\* C35 witness: the 21st last of 22 incoming messages was asked for and
\* shown as "21st last".
C35_Witness ==
    /\ PositionShown
    /\ Len(chats[1].msgs) = 22
    /\ AskedPosition = 21
    /\ result.out.position_text = <<[n |-> 21, suffix |-> "st"], "last">>

\* C36: help and ? in any case return the static help text and leave
\* running as it is; quit, exit and stop in any case set running to false;
\* none of them calls the language model, sends a message, changes the page
\* or asks the relay, and none changes auto_reply, the contacts or
\* last_contact.
C36_LiteralCommandsBypassModel ==
    [][CommandStep =>
          LET cmd == Lower(result'.command)
          IN  /\ cmd \in {Help, Question}
                    => /\ result'.out = [kind |-> "help"]
                       /\ running' = running
              /\ cmd \in {Quit, Exit, Stop} => ~running'
              /\ cmd \in {Help, Question, Quit, Exit, Stop}
                    => /\ modelCalls' = << >>
                       /\ sendCalls' = << >>
                       /\ result'.requests = << >>
                       /\ chats' = chats
                       /\ auto_reply' = auto_reply
                       /\ contact_list' = contact_list
                       /\ last_contact' = last_contact]_vars

\* C36 witness: STOP was entered after a command that set last_contact; the
\* application is stopping and still remembers the contact.
C36_Witness ==
    /\ IsCommand
    /\ result.command = <<"S", "T", "O", "P">>
    /\ result.out.kind = "stopping"
    /\ ~running
    /\ last_contact # NoContact
    /\ modelCalls = << >>

\* a read or a summary of WhatsAppAIControl whose get_chat_messages call
\* returned no message
NothingFetched ==
    /\ IsCommand
    /\ variant = "AIControl"
    /\ ParsedAction \in {"read", "summary"}
    /\ Fetched(IF ParsedAction = "read" THEN Get(Parsed[1].count, 10) ELSE 20) = << >>

\* C37: a read or a summary for which no message was fetched returns the
\* "no messages" text for the contact, not an error; no message is selected
\* and the language model is asked for nothing but the parse of the command.
C37_NoMessagesIsAResult ==
    NothingFetched =>
        /\ result.out = [kind |-> "no_messages", contact |-> AskedContact]
        /\ \A k \in 1..Len(modelCalls) : modelCalls[k].for = "parse"
        /\ sendCalls = << >>

\* C37 witness: the summary of a chat that shows no message
C37_Witness ==
    /\ NothingFetched
    /\ ParsedAction = "summary"
    /\ AskedContact = alice
    /\ chats[1].msgs = << >>
    /\ result.out.kind = "no_messages"

\* C37 witness for reads: the second last message of an empty chat
C37_WitnessRead ==
    /\ NothingFetched
    /\ PositionAsked
    /\ chats[1].msgs = << >>
    /\ result.out.kind = "no_messages"

\* the result of an executed auto_on or auto_off action
AutoDone(out) == out.kind \in {"auto_on", "auto_off"}

\* C38: an auto_on action always succeeds and leaves auto_reply true, an
\* auto_off action leaves it false, whatever it was; neither changes the
\* contacts, last_contact, message_history or the page, sends a message or
\* asks the language model for more than the parse of the command; relay
\* mode changes only when the relay had not answered the command.
C38_AutoSetsOnlyAutoReply ==
    [][CommandStep =>
          /\ Asked("auto_on")' => result'.out.kind = "auto_on"
          /\ Asked("auto_off")' => result'.out.kind = "auto_off"
          /\ result'.out.kind = "auto_on" => auto_reply'
          /\ result'.out.kind = "auto_off" => ~auto_reply'
          /\ AutoDone(result'.out)
                => /\ contact_list' = contact_list
                   /\ last_contact' = last_contact
                   /\ message_history' = message_history
                   /\ chats' = chats
                   /\ sendCalls' = << >>
                   /\ \A k \in 1..Len(modelCalls') : modelCalls'[k].for = "parse"
                   /\ use_mcp' # use_mcp => (use_mcp /\ ~result'.relay.up)]_vars

\* C38 witness: auto_off was executed by WhatsAppAIControlMCP while a
\* contact was remembered from an earlier command; the contact is kept.
C38_Witness ==
    /\ Asked("auto_off")
    /\ variant = "MCP"
    /\ last_contact # NoContact
    /\ contact_list # << >>
    /\ result.out.kind = "auto_off"
    /\ ~auto_reply

\* what a read result selected: its kind, the message text or the lines shown
Selection(out) ==
    [kind |-> out.kind,
     text |-> IF "text" \in DOMAIN out THEN <<out.text>> ELSE << >>,
     lines |-> IF "lines" \in DOMAIN out THEN out.lines ELSE << >>]

\* the texts and types of a fetched window
Shown(messages) ==
    [k \in 1..Len(messages) |-> [text |-> messages[k].text, type |-> messages[k].type]]

\* C29: for the same read action and the same fetched window, the read
\* executed after the relay's answer selects what WhatsAppAIControl's
\* execute_action selects, or both report that nothing was found.
C29_RelayReadAsStandalone ==
    (/\ Asked("read")
     /\ variant = "MCP"
     /\ result.relay.up
     /\ Shown(Fetched(10)) =
            Shown(get_chat_messages(chats, AskedContact, Get(Parsed[1].count, 10))))
        => Selection(result.out) =
               Selection(Caught(execute_action(Parsed[1], chats, auto_reply, result.sent,
                                               result.gen, MaxWindow)).res)

\* C7: a positional read whose position exceeds the number of incoming
\* messages fetched returns, without raising, a not-found result that
\* states the requested position and the number found; in WhatsAppAIControl
\* and when the relay answers.
C7_NotFoundStatesPositionAndCount ==
    (/\ PositionAsked
     /\ variant = "AIControl" \/ result.relay.up
     /\ AskedPosition > Len(IncomingOnly))
        => /\ result.out.kind = "not_enough"
           /\ result.out.found = Len(IncomingOnly)
           /\ "position" \in DOMAIN result.out
           /\ result.out.position = AskedPosition

\* C8: in WhatsAppAIControl a positional read with 1 <= position <= k, k the
\* number of incoming messages fetched, returns the incoming message at
\* 0-based index k - position of the incoming-only subsequence.
C8_PositionCountsIncomingFromEnd ==
    (/\ PositionAsked
     /\ variant = "AIControl"
     /\ 1 <= AskedPosition
     /\ AskedPosition <= Len(IncomingOnly))
        => /\ result.out.kind = "position_message"
           /\ result.out.text = IncomingOnly[(Len(IncomingOnly) - AskedPosition) + 1].text

\* C8 witness: window hi(in), yo(out), sup(in), bye(in); position 2 gives sup.
C8_Witness ==
    /\ PositionAsked
    /\ variant = "AIControl"
    /\ chats[1].msgs = Window(<<Incoming, Outgoing, Incoming, Incoming>>)
    /\ Parsed[1].count = << >>
    /\ AskedPosition = 2
    /\ result.out.kind = "position_message"
    /\ result.out.text = "sup"

-----------------------------------------------------------------------------
(* Properties of the relay client, checked under SpecRelay *)

\* C14: a future is completed, and a call returns a message, only with a
\* message of type "response" whose request_id is the id the call
\* generated; every other call's future is left as it was.
C14_OnlyOwnResponse ==
    \A id \in DOMAIN calls :
        /\ calls[id].future.done = "result"
              => /\ calls[id].future.result[1].type = "response"
                 /\ calls[id].future.result[1].request_id = <<id>>
        /\ calls[id].value # << >>
              => /\ calls[id].state = "returned"
                 /\ calls[id].value[1].type = "response"
                 /\ calls[id].value[1].request_id = <<id>>

\* C14 witness: two calls were waiting together; the second has returned
\* its own response while the first still waits.
C14_Witness ==
    /\ DOMAIN calls = {1, 2}
    /\ calls[1].state = "waiting"
    /\ calls[1].future.done = "no"
    /\ calls[2].state = "returned"
    /\ calls[2].value # << >>
    /\ calls[2].value[1].request_id = <<2>>
    /\ 1 \in response_futures

\* the receiver takes from the connection a reply of
\* handle_whatsapp_ai_command (a result or an error) that carries the id of
\* a call still waiting for its response
ReplyReceived(id) ==
    /\ wire # << >>
    /\ wire' = << >>
    /\ wire[1].request_id = <<id>>
    /\ \/ wire[1].type = "error"
       \/ wire[1].type = "response" /\ wire[1].response_type = "whatsapp_command_result"
    /\ id \in DOMAIN calls
    /\ calls[id].state = "waiting"
    /\ calls[id].future.done = "no"

\* C27: every reply of the server to a whatsapp_ai_command that carries the
\* request's id, the error reply included, completes the call waiting for
\* that id when it is received before the timeout.
C27_EveryReplyCompletes ==
    [][\A id \in RequestIds :
          ReplyReceived(id)
              => /\ calls'[id].future.done = "result"
                 /\ calls'[id].future.result[1].request_id = <<id>>
                 /\ id \notin response_futures']_vars

\* C28: response_futures holds an id only while its send_request_and_wait
\* call is waiting; after the call returned (by response, timeout or send
\* failure) the id is absent, and a response for a call that timed out
\* completes nothing and changes no pending entry.
C28_TableHoldsOnlyWaitingCalls ==
    /\ [](/\ response_futures \subseteq DOMAIN calls
          /\ \A id \in DOMAIN calls :
                 /\ id \in response_futures => calls[id].state = "waiting"
                 /\ calls[id].state = "returned" => id \notin response_futures
                 /\ calls[id].future.done = "cancelled" => calls[id].value = << >>)
    /\ [][\A id \in DOMAIN calls :
              (/\ wire # << >>
               /\ wire' = << >>
               /\ wire[1].request_id = <<id>>
               /\ calls[id].future.done = "cancelled")
                  => /\ calls' = calls
                     /\ response_futures' \ {id} = response_futures \ {id}]_vars

\* C28 witness: call 1 timed out and returned None, its response arrives
\* now, and call 2 still waits with its entry in the table.
C28_Witness ==
    /\ DOMAIN calls = {1, 2}
    /\ calls[1].state = "returned"
    /\ calls[1].future = Cancelled
    /\ calls[1].value = << >>
    /\ calls[2].state = "waiting"
    /\ calls[2].future = Pending
    /\ response_futures = {2}
    /\ wire = <<ServerMessage("response", Some(1), "whatsapp_command_result")>>

-----------------------------------------------------------------------------
(* Properties of the command loops, checked under SpecLoop *)

\* a step of the chat poll that leaves a trace: its result, or a write to
\* the snippets seen, the history, or its calls
PollStep == MonitorStep

\* C17: at most one command is being processed; a command is started only
\* when none is being processed, and no chat poll step is taken while one
\* is.
C17_OneCommandAtATime ==
    /\ [](Len(in_flight) <= 1)
    /\ [][/\ (in_flight' # in_flight /\ in_flight' # << >>) => in_flight = << >>
          /\ PollStep => (in_flight = << >> /\ in_flight' = << >>)]_vars

\* C17 witness: a command was submitted while another is being processed.
C17_Witness ==
    /\ in_flight # << >>
    /\ input_queue # << >>
    /\ input_queue[1].key = "enter"
    /\ pc.loop = "command"

C30_NoPollAfterQuit ==
    [][~running => ~MonitorStep]_vars

=============================================================================
